---- MODULE Spec2Model ----
(***************************************************************************)
(* Validation and model generation of CIDOC CRM entities (collie).        *)
(*                                                                         *)
(* The model holds the property registry (P, DOMAIN, RANGE), the specs     *)
(* directory of the class generator, the caller's entity list, the         *)
(* interpreter's warnings filter, and the most recent call with            *)
(* everything it produced: its return value, the exception it raised, the  *)
(* log records and the warnings it emitted.  Every operation of the        *)
(* quantifier validator, the typing validator and the generator is one     *)
(* action; the functions of validators/quantifiers.py and                  *)
(* codegen/generate_models.py are operators computed as the code computes  *)
(* them.  Strings that the code parses or rewrites (quantifiers, labels)   *)
(* are sequences of one-character strings; messages built with f-strings   *)
(* are records of the values interpolated into them.                       *)
(***************************************************************************)
EXTENDS Integers, Sequences, FiniteSets, TLC

\* P, DOMAIN and RANGE of properties.py (DOMAIN is a reserved word of TLA+)
\* specs_dir: the directory the generator reads the schema from;
\* quantifier_arg: a quantifier string a caller holds;
\* workers: the calls of validate_batch_quantifiers the caller gives to
\* threads of its own
VARIABLES P, DomainIndex, RangeIndex, specs_dir, quantifier_arg, entities,
          warnfilter, workers, call, outcome

vars ==
  <<P, DomainIndex, RangeIndex, specs_dir, quantifier_arg, entities, warnfilter,
    workers, call, outcome>>

(***************************************************************************)
(* Bounds of the model.                                                    *)
(***************************************************************************)
\* entities in the caller's list
MaxEntities == 2
\* values in an explicit value list, and ids in a list-form attribute
MaxValues == 2
\* numbers a caller writes as the bounds of a quantifier string
MaxNumber == 11
\* class records in an authored crm_classes.yaml
MaxClasses == 2


(***************************************************************************)
(* The shipped registry: properties.py.  label, aliases and notes are      *)
(* cosmetic and no validator reads them; they are left out.                *)
(***************************************************************************)
ShippedP ==
     ("P1" :> [domain |-> "E1", range |-> "E41", inverse |-> "P1i", quantifier |-> <<"0", ".", ".", "*">>])
  @@ ("P2" :> [domain |-> "E1", range |-> "E55", inverse |-> "P2i", quantifier |-> <<"0", ".", ".", "*">>])
  @@ ("P3" :> [domain |-> "E1", range |-> "E62", inverse |-> "P3i", quantifier |-> <<"0", ".", ".", "*">>])
  @@ ("P4" :> [domain |-> "E2", range |-> "E52", inverse |-> "P4i", quantifier |-> <<"0", ".", ".", "1">>])
  @@ ("P7" :> [domain |-> "E5", range |-> "E53", inverse |-> "P7i", quantifier |-> <<"0", ".", ".", "*">>])
  @@ ("P11" :> [domain |-> "E5", range |-> "E39", inverse |-> "P11i", quantifier |-> <<"0", ".", ".", "*">>])
  @@ ("P53" :> [domain |-> "E18", range |-> "E53", inverse |-> "P53i", quantifier |-> <<"0", ".", ".", "*">>])
  @@ ("P79" :> [domain |-> "E52", range |-> "E61", inverse |-> "P79i", quantifier |-> <<"0", ".", ".", "1">>])
  @@ ("P80" :> [domain |-> "E52", range |-> "E61", inverse |-> "P80i", quantifier |-> <<"0", ".", ".", "1">>])
  @@ ("P108" :> [domain |-> "E22", range |-> "E12", inverse |-> "P108i", quantifier |-> <<"0", ".", ".", "1">>])
  @@ ("P108i" :> [domain |-> "E12", range |-> "E22", inverse |-> "P108", quantifier |-> <<"0", ".", ".", "*">>])
  @@ ("P1i" :> [domain |-> "E41", range |-> "E1", inverse |-> "P1", quantifier |-> <<"0", ".", ".", "*">>])
  @@ ("P2i" :> [domain |-> "E55", range |-> "E1", inverse |-> "P2", quantifier |-> <<"0", ".", ".", "*">>])
  @@ ("P3i" :> [domain |-> "E62", range |-> "E1", inverse |-> "P3", quantifier |-> <<"0", ".", ".", "*">>])
  @@ ("P4i" :> [domain |-> "E52", range |-> "E2", inverse |-> "P4", quantifier |-> <<"0", ".", ".", "*">>])
  @@ ("P7i" :> [domain |-> "E53", range |-> "E5", inverse |-> "P7", quantifier |-> <<"0", ".", ".", "*">>])
  @@ ("P11i" :> [domain |-> "E39", range |-> "E5", inverse |-> "P11", quantifier |-> <<"0", ".", ".", "*">>])
  @@ ("P53i" :> [domain |-> "E53", range |-> "E18", inverse |-> "P53", quantifier |-> <<"0", ".", ".", "*">>])
  @@ ("P79i" :> [domain |-> "E61", range |-> "E52", inverse |-> "P79", quantifier |-> <<"0", ".", ".", "*">>])
  @@ ("P80i" :> [domain |-> "E61", range |-> "E52", inverse |-> "P80", quantifier |-> <<"0", ".", ".", "*">>])
  @@ ("P5" :> [domain |-> "E18", range |-> "E18", inverse |-> "P5i", quantifier |-> <<"0", ".", ".", "*">>])
  @@ ("P5i" :> [domain |-> "E18", range |-> "E18", inverse |-> "P5", quantifier |-> <<"0", ".", ".", "*">>])
  @@ ("P8" :> [domain |-> "E5", range |-> "E61", inverse |-> "P8i", quantifier |-> <<"0", ".", ".", "*">>])
  @@ ("P8i" :> [domain |-> "E61", range |-> "E5", inverse |-> "P8", quantifier |-> <<"0", ".", ".", "*">>])
  @@ ("P9" :> [domain |-> "E4", range |-> "E4", inverse |-> "P9i", quantifier |-> <<"0", ".", ".", "*">>])
  @@ ("P9i" :> [domain |-> "E4", range |-> "E4", inverse |-> "P9", quantifier |-> <<"0", ".", ".", "*">>])
  @@ ("P10" :> [domain |-> "E4", range |-> "E4", inverse |-> "P10i", quantifier |-> <<"0", ".", ".", "*">>])
  @@ ("P10i" :> [domain |-> "E4", range |-> "E4", inverse |-> "P10", quantifier |-> <<"0", ".", ".", "*">>])
  @@ ("P12" :> [domain |-> "E5", range |-> "E77", inverse |-> "P12i", quantifier |-> <<"0", ".", ".", "*">>])
  @@ ("P12i" :> [domain |-> "E77", range |-> "E5", inverse |-> "P12", quantifier |-> <<"0", ".", ".", "*">>])
  @@ ("P13" :> [domain |-> "E6", range |-> "E18", inverse |-> "P13i", quantifier |-> <<"0", ".", ".", "*">>])
  @@ ("P13i" :> [domain |-> "E18", range |-> "E6", inverse |-> "P13", quantifier |-> <<"0", ".", ".", "*">>])
  @@ ("P14" :> [domain |-> "E7", range |-> "E39", inverse |-> "P14i", quantifier |-> <<"0", ".", ".", "*">>])
  @@ ("P14i" :> [domain |-> "E39", range |-> "E7", inverse |-> "P14", quantifier |-> <<"0", ".", ".", "*">>])
  @@ ("P15" :> [domain |-> "E7", range |-> "E1", inverse |-> "P15i", quantifier |-> <<"0", ".", ".", "*">>])
  @@ ("P15i" :> [domain |-> "E1", range |-> "E7", inverse |-> "P15", quantifier |-> <<"0", ".", ".", "*">>])
  @@ ("P16" :> [domain |-> "E7", range |-> "E19", inverse |-> "P16i", quantifier |-> <<"0", ".", ".", "*">>])
  @@ ("P16i" :> [domain |-> "E19", range |-> "E7", inverse |-> "P16", quantifier |-> <<"0", ".", ".", "*">>])
  @@ ("P17" :> [domain |-> "E7", range |-> "E1", inverse |-> "P17i", quantifier |-> <<"0", ".", ".", "*">>])
  @@ ("P17i" :> [domain |-> "E1", range |-> "E7", inverse |-> "P17", quantifier |-> <<"0", ".", ".", "*">>])
  @@ ("P19" :> [domain |-> "E7", range |-> "E55", inverse |-> "P19i", quantifier |-> <<"0", ".", ".", "*">>])
  @@ ("P19i" :> [domain |-> "E55", range |-> "E7", inverse |-> "P19", quantifier |-> <<"0", ".", ".", "*">>])
  @@ ("P20" :> [domain |-> "E7", range |-> "E5", inverse |-> "P20i", quantifier |-> <<"0", ".", ".", "*">>])
  @@ ("P20i" :> [domain |-> "E5", range |-> "E7", inverse |-> "P20", quantifier |-> <<"0", ".", ".", "*">>])
  @@ ("P21" :> [domain |-> "E7", range |-> "E55", inverse |-> "P21i", quantifier |-> <<"0", ".", ".", "*">>])
  @@ ("P21i" :> [domain |-> "E55", range |-> "E7", inverse |-> "P21", quantifier |-> <<"0", ".", ".", "*">>])
  @@ ("P22" :> [domain |-> "E8", range |-> "E39", inverse |-> "P22i", quantifier |-> <<"0", ".", ".", "*">>])
  @@ ("P22i" :> [domain |-> "E39", range |-> "E8", inverse |-> "P22", quantifier |-> <<"0", ".", ".", "*">>])
  @@ ("P23" :> [domain |-> "E8", range |-> "E39", inverse |-> "P23i", quantifier |-> <<"0", ".", ".", "*">>])
  @@ ("P23i" :> [domain |-> "E39", range |-> "E8", inverse |-> "P23", quantifier |-> <<"0", ".", ".", "*">>])
  @@ ("P24" :> [domain |-> "E8", range |-> "E18", inverse |-> "P24i", quantifier |-> <<"0", ".", ".", "*">>])
  @@ ("P24i" :> [domain |-> "E18", range |-> "E8", inverse |-> "P24", quantifier |-> <<"0", ".", ".", "*">>])
  @@ ("P25" :> [domain |-> "E9", range |-> "E18", inverse |-> "P25i", quantifier |-> <<"0", ".", ".", "*">>])
  @@ ("P25i" :> [domain |-> "E18", range |-> "E9", inverse |-> "P25", quantifier |-> <<"0", ".", ".", "*">>])
  @@ ("P26" :> [domain |-> "E9", range |-> "E53", inverse |-> "P26i", quantifier |-> <<"0", ".", ".", "*">>])
  @@ ("P26i" :> [domain |-> "E53", range |-> "E9", inverse |-> "P26", quantifier |-> <<"0", ".", ".", "*">>])
  @@ ("P27" :> [domain |-> "E9", range |-> "E53", inverse |-> "P27i", quantifier |-> <<"0", ".", ".", "*">>])
  @@ ("P27i" :> [domain |-> "E53", range |-> "E9", inverse |-> "P27", quantifier |-> <<"0", ".", ".", "*">>])
  @@ ("P28" :> [domain |-> "E10", range |-> "E39", inverse |-> "P28i", quantifier |-> <<"0", ".", ".", "*">>])
  @@ ("P28i" :> [domain |-> "E39", range |-> "E10", inverse |-> "P28", quantifier |-> <<"0", ".", ".", "*">>])
  @@ ("P29" :> [domain |-> "E10", range |-> "E39", inverse |-> "P29i", quantifier |-> <<"0", ".", ".", "*">>])
  @@ ("P29i" :> [domain |-> "E39", range |-> "E10", inverse |-> "P29", quantifier |-> <<"0", ".", ".", "*">>])
  @@ ("P30" :> [domain |-> "E10", range |-> "E18", inverse |-> "P30i", quantifier |-> <<"0", ".", ".", "*">>])
  @@ ("P30i" :> [domain |-> "E18", range |-> "E10", inverse |-> "P30", quantifier |-> <<"0", ".", ".", "*">>])

ShippedDOMAIN ==
     ("E1" :> <<"P1", "P2", "P3", "P15i", "P17i">>)
  @@ ("E2" :> <<"P4">>)
  @@ ("E5" :> <<"P7", "P11", "P8", "P12", "P20i">>)
  @@ ("E18" :> <<"P53", "P5", "P5i", "P13i", "P24i", "P25i", "P30i">>)
  @@ ("E52" :> <<"P79", "P80", "P4i">>)
  @@ ("E22" :> <<"P108">>)
  @@ ("E12" :> <<"P108i">>)
  @@ ("E41" :> <<"P1i">>)
  @@ ("E55" :> <<"P2i", "P19i", "P21i">>)
  @@ ("E62" :> <<"P3i">>)
  @@ ("E53" :> <<"P7i", "P53i", "P26i", "P27i">>)
  @@ ("E39" :> <<"P11i", "P14i", "P22i", "P23i", "P28i", "P29i">>)
  @@ ("E61" :> <<"P79i", "P80i", "P8i">>)
  @@ ("E4" :> <<"P9", "P9i", "P10", "P10i">>)
  @@ ("E77" :> <<"P12i">>)
  @@ ("E6" :> <<"P13">>)
  @@ ("E7" :> <<"P14", "P15", "P16", "P17", "P19", "P20", "P21">>)
  @@ ("E19" :> <<"P16i">>)
  @@ ("E8" :> <<"P22", "P23", "P24">>)
  @@ ("E9" :> <<"P25", "P26", "P27">>)
  @@ ("E10" :> <<"P28", "P29", "P30">>)

ShippedRANGE ==
     ("E41" :> <<"P1">>)
  @@ ("E55" :> <<"P2", "P19", "P21">>)
  @@ ("E62" :> <<"P3">>)
  @@ ("E52" :> <<"P4", "P79i", "P80i">>)
  @@ ("E53" :> <<"P7", "P53", "P26", "P27">>)
  @@ ("E39" :> <<"P11", "P14", "P22", "P23", "P28", "P29">>)
  @@ ("E61" :> <<"P79", "P80", "P8">>)
  @@ ("E12" :> <<"P108">>)
  @@ ("E22" :> <<"P108i">>)
  @@ ("E1" :> <<"P1i", "P2i", "P3i", "P15", "P17">>)
  @@ ("E2" :> <<"P4i">>)
  @@ ("E5" :> <<"P7i", "P11i", "P8i", "P12i", "P20">>)
  @@ ("E18" :> <<"P53i", "P5", "P5i", "P13", "P24", "P25", "P30">>)
  @@ ("E4" :> <<"P9", "P9i", "P10", "P10i">>)
  @@ ("E77" :> <<"P12">>)
  @@ ("E6" :> <<"P13i">>)
  @@ ("E7" :> <<"P14i", "P15i", "P16i", "P17i", "P19i", "P20i", "P21i">>)
  @@ ("E19" :> <<"P16">>)
  @@ ("E8" :> <<"P22i", "P23i", "P24i">>)
  @@ ("E9" :> <<"P25i", "P26i", "P27i">>)
  @@ ("E10" :> <<"P28i", "P29i", "P30i">>)

\* The class records of the schema, codegen/specs/crm_classes.yaml, as
\* generated/e_classes.py shows them: one record per emitted class, in the
\* order of emission.  The property of a shortcut is the one
\* _get_property_values reads the field for.
ShippedClasses ==
  <<
     [code |-> "E1", label |-> <<"C", "R", "M", " ", "E", "n", "t", "i", "t", "y">>,
      abstract |-> TRUE, parents |-> <<>>,
      canonical_fields |-> <<"label", "type", "notes">>, shortcuts |-> <<>>],
     [code |-> "E2", label |-> <<"T", "e", "m", "p", "o", "r", "a", "l", " ", "E", "n", "t", "i", "t", "y">>,
      abstract |-> TRUE, parents |-> <<"E1">>,
      canonical_fields |-> <<"label", "type", "notes">>, shortcuts |-> <<>>],
     [code |-> "E3", label |-> <<"C", "o", "n", "d", "i", "t", "i", "o", "n", " ", "S", "t", "a", "t", "e">>,
      abstract |-> FALSE, parents |-> <<"E2">>,
      canonical_fields |-> <<"label", "type", "notes">>, shortcuts |-> <<>>],
     [code |-> "E4", label |-> <<"P", "e", "r", "i", "o", "d">>,
      abstract |-> FALSE, parents |-> <<"E2">>,
      canonical_fields |-> <<"label", "type", "notes">>, shortcuts |-> <<>>],
     [code |-> "E5", label |-> <<"E", "v", "e", "n", "t">>,
      abstract |-> FALSE, parents |-> <<"E2">>,
      canonical_fields |-> <<"label", "type", "notes", "timespan", "took_place_at">>, shortcuts |-> <<[property |-> "P4", alias_field |-> "timespan"], [property |-> "P7", alias_field |-> "took_place_at"]>>],
     [code |-> "E6", label |-> <<"D", "e", "s", "t", "r", "u", "c", "t", "i", "o", "n">>,
      abstract |-> FALSE, parents |-> <<"E5">>,
      canonical_fields |-> <<"label", "type", "notes", "timespan", "took_place_at">>, shortcuts |-> <<[property |-> "P4", alias_field |-> "timespan"], [property |-> "P7", alias_field |-> "took_place_at"]>>],
     [code |-> "E7", label |-> <<"A", "c", "t", "i", "v", "i", "t", "y">>,
      abstract |-> FALSE, parents |-> <<"E5">>,
      canonical_fields |-> <<"label", "type", "notes", "timespan", "took_place_at">>, shortcuts |-> <<[property |-> "P4", alias_field |-> "timespan"], [property |-> "P7", alias_field |-> "took_place_at"]>>],
     [code |-> "E8", label |-> <<"A", "c", "q", "u", "i", "s", "i", "t", "i", "o", "n">>,
      abstract |-> FALSE, parents |-> <<"E7">>,
      canonical_fields |-> <<"label", "type", "notes", "timespan", "took_place_at">>, shortcuts |-> <<[property |-> "P4", alias_field |-> "timespan"], [property |-> "P7", alias_field |-> "took_place_at"]>>],
     [code |-> "E9", label |-> <<"M", "o", "v", "e">>,
      abstract |-> FALSE, parents |-> <<"E7">>,
      canonical_fields |-> <<"label", "type", "notes", "timespan", "took_place_at">>, shortcuts |-> <<[property |-> "P4", alias_field |-> "timespan"], [property |-> "P7", alias_field |-> "took_place_at"]>>],
     [code |-> "E10", label |-> <<"T", "r", "a", "n", "s", "f", "e", "r", " ", "o", "f", " ", "C", "u", "s", "t", "o", "d", "y">>,
      abstract |-> FALSE, parents |-> <<"E7">>,
      canonical_fields |-> <<"label", "type", "notes", "timespan", "took_place_at">>, shortcuts |-> <<[property |-> "P4", alias_field |-> "timespan"], [property |-> "P7", alias_field |-> "took_place_at"]>>],
     [code |-> "E11", label |-> <<"M", "o", "d", "i", "f", "i", "c", "a", "t", "i", "o", "n">>,
      abstract |-> FALSE, parents |-> <<"E7">>,
      canonical_fields |-> <<"label", "type", "notes", "timespan", "took_place_at">>, shortcuts |-> <<[property |-> "P4", alias_field |-> "timespan"], [property |-> "P7", alias_field |-> "took_place_at"]>>],
     [code |-> "E12", label |-> <<"P", "r", "o", "d", "u", "c", "t", "i", "o", "n">>,
      abstract |-> FALSE, parents |-> <<"E7">>,
      canonical_fields |-> <<"label", "type", "notes", "timespan", "took_place_at">>, shortcuts |-> <<[property |-> "P4", alias_field |-> "timespan"], [property |-> "P7", alias_field |-> "took_place_at"]>>],
     [code |-> "E13", label |-> <<"A", "t", "t", "r", "i", "b", "u", "t", "e", " ", "A", "s", "s", "i", "g", "n", "m", "e", "n", "t">>,
      abstract |-> FALSE, parents |-> <<"E7">>,
      canonical_fields |-> <<"label", "type", "notes", "timespan", "took_place_at">>, shortcuts |-> <<[property |-> "P4", alias_field |-> "timespan"], [property |-> "P7", alias_field |-> "took_place_at"]>>],
     [code |-> "E14", label |-> <<"C", "o", "n", "d", "i", "t", "i", "o", "n", " ", "A", "s", "s", "e", "s", "s", "m", "e", "n", "t">>,
      abstract |-> FALSE, parents |-> <<"E13">>,
      canonical_fields |-> <<"label", "type", "notes", "timespan", "took_place_at">>, shortcuts |-> <<[property |-> "P4", alias_field |-> "timespan"], [property |-> "P7", alias_field |-> "took_place_at"]>>],
     [code |-> "E15", label |-> <<"I", "d", "e", "n", "t", "i", "f", "i", "e", "r", " ", "A", "s", "s", "i", "g", "n", "m", "e", "n", "t">>,
      abstract |-> FALSE, parents |-> <<"E13">>,
      canonical_fields |-> <<"label", "type", "notes", "timespan", "took_place_at">>, shortcuts |-> <<[property |-> "P4", alias_field |-> "timespan"], [property |-> "P7", alias_field |-> "took_place_at"]>>],
     [code |-> "E16", label |-> <<"M", "e", "a", "s", "u", "r", "e", "m", "e", "n", "t">>,
      abstract |-> FALSE, parents |-> <<"E13">>,
      canonical_fields |-> <<"label", "type", "notes", "timespan", "took_place_at">>, shortcuts |-> <<[property |-> "P4", alias_field |-> "timespan"], [property |-> "P7", alias_field |-> "took_place_at"]>>],
     [code |-> "E17", label |-> <<"T", "y", "p", "e", " ", "A", "s", "s", "i", "g", "n", "m", "e", "n", "t">>,
      abstract |-> FALSE, parents |-> <<"E13">>,
      canonical_fields |-> <<"label", "type", "notes", "timespan", "took_place_at">>, shortcuts |-> <<[property |-> "P4", alias_field |-> "timespan"], [property |-> "P7", alias_field |-> "took_place_at"]>>],
     [code |-> "E18", label |-> <<"P", "h", "y", "s", "i", "c", "a", "l", " ", "T", "h", "i", "n", "g">>,
      abstract |-> TRUE, parents |-> <<"E1">>,
      canonical_fields |-> <<"label", "type", "notes">>, shortcuts |-> <<>>],
     [code |-> "E19", label |-> <<"P", "h", "y", "s", "i", "c", "a", "l", " ", "O", "b", "j", "e", "c", "t">>,
      abstract |-> FALSE, parents |-> <<"E18">>,
      canonical_fields |-> <<"label", "type", "notes", "current_location">>, shortcuts |-> <<[property |-> "P53", alias_field |-> "current_location"]>>],
     [code |-> "E20", label |-> <<"B", "i", "o", "l", "o", "g", "i", "c", "a", "l", " ", "O", "b", "j", "e", "c", "t">>,
      abstract |-> FALSE, parents |-> <<"E19">>,
      canonical_fields |-> <<"label", "type", "notes", "current_location">>, shortcuts |-> <<[property |-> "P53", alias_field |-> "current_location"]>>],
     [code |-> "E21", label |-> <<"P", "e", "r", "s", "o", "n">>,
      abstract |-> FALSE, parents |-> <<"E20">>,
      canonical_fields |-> <<"label", "type", "notes", "current_location">>, shortcuts |-> <<[property |-> "P53", alias_field |-> "current_location"]>>],
     [code |-> "E22", label |-> <<"H", "u", "m", "a", "n", "-", "M", "a", "d", "e", " ", "O", "b", "j", "e", "c", "t">>,
      abstract |-> FALSE, parents |-> <<"E19">>,
      canonical_fields |-> <<"label", "type", "notes", "current_location", "produced_by">>, shortcuts |-> <<[property |-> "P53", alias_field |-> "current_location"], [property |-> "P108", alias_field |-> "produced_by"]>>],
     [code |-> "E23", label |-> <<"C", "o", "n", "c", "e", "p", "t", "u", "a", "l", " ", "O", "b", "j", "e", "c", "t">>,
      abstract |-> TRUE, parents |-> <<"E1">>,
      canonical_fields |-> <<"label", "type", "notes">>, shortcuts |-> <<>>],
     [code |-> "E24", label |-> <<"P", "h", "y", "s", "i", "c", "a", "l", " ", "M", "a", "n", "-", "M", "a", "d", "e", " ", "T", "h", "i", "n", "g">>,
      abstract |-> FALSE, parents |-> <<"E18">>,
      canonical_fields |-> <<"label", "type", "notes", "current_location">>, shortcuts |-> <<[property |-> "P53", alias_field |-> "current_location"]>>],
     [code |-> "E25", label |-> <<"M", "a", "n", "-", "M", "a", "d", "e", " ", "F", "e", "a", "t", "u", "r", "e">>,
      abstract |-> FALSE, parents |-> <<"E24">>,
      canonical_fields |-> <<"label", "type", "notes", "current_location">>, shortcuts |-> <<[property |-> "P53", alias_field |-> "current_location"]>>],
     [code |-> "E26", label |-> <<"P", "h", "y", "s", "i", "c", "a", "l", " ", "F", "e", "a", "t", "u", "r", "e">>,
      abstract |-> FALSE, parents |-> <<"E18">>,
      canonical_fields |-> <<"label", "type", "notes", "current_location">>, shortcuts |-> <<[property |-> "P53", alias_field |-> "current_location"]>>],
     [code |-> "E27", label |-> <<"S", "i", "t", "e">>,
      abstract |-> FALSE, parents |-> <<"E26">>,
      canonical_fields |-> <<"label", "type", "notes", "current_location">>, shortcuts |-> <<[property |-> "P53", alias_field |-> "current_location"]>>],
     [code |-> "E28", label |-> <<"C", "o", "n", "c", "e", "p", "t", "u", "a", "l", " ", "O", "b", "j", "e", "c", "t">>,
      abstract |-> FALSE, parents |-> <<"E23">>,
      canonical_fields |-> <<"label", "type", "notes">>, shortcuts |-> <<>>],
     [code |-> "E29", label |-> <<"D", "e", "s", "i", "g", "n", " ", "o", "r", " ", "P", "r", "o", "c", "e", "d", "u", "r", "e">>,
      abstract |-> FALSE, parents |-> <<"E28">>,
      canonical_fields |-> <<"label", "type", "notes">>, shortcuts |-> <<>>],
     [code |-> "E30", label |-> <<"R", "i", "g", "h", "t">>,
      abstract |-> FALSE, parents |-> <<"E28">>,
      canonical_fields |-> <<"label", "type", "notes">>, shortcuts |-> <<>>],
     [code |-> "E31", label |-> <<"D", "o", "c", "u", "m", "e", "n", "t">>,
      abstract |-> FALSE, parents |-> <<"E28">>,
      canonical_fields |-> <<"label", "type", "notes">>, shortcuts |-> <<>>],
     [code |-> "E32", label |-> <<"A", "u", "t", "h", "o", "r", "i", "t", "y", " ", "D", "o", "c", "u", "m", "e", "n", "t">>,
      abstract |-> FALSE, parents |-> <<"E31">>,
      canonical_fields |-> <<"label", "type", "notes">>, shortcuts |-> <<>>],
     [code |-> "E33", label |-> <<"L", "i", "n", "g", "u", "i", "s", "t", "i", "c", " ", "O", "b", "j", "e", "c", "t">>,
      abstract |-> FALSE, parents |-> <<"E28">>,
      canonical_fields |-> <<"label", "type", "notes">>, shortcuts |-> <<>>],
     [code |-> "E34", label |-> <<"I", "n", "s", "c", "r", "i", "p", "t", "i", "o", "n">>,
      abstract |-> FALSE, parents |-> <<"E33">>,
      canonical_fields |-> <<"label", "type", "notes">>, shortcuts |-> <<>>],
     [code |-> "E35", label |-> <<"T", "i", "t", "l", "e">>,
      abstract |-> FALSE, parents |-> <<"E33">>,
      canonical_fields |-> <<"label", "type", "notes">>, shortcuts |-> <<>>],
     [code |-> "E36", label |-> <<"V", "i", "s", "u", "a", "l", " ", "I", "t", "e", "m">>,
      abstract |-> FALSE, parents |-> <<"E28">>,
      canonical_fields |-> <<"label", "type", "notes">>, shortcuts |-> <<>>],
     [code |-> "E37", label |-> <<"M", "a", "r", "k">>,
      abstract |-> FALSE, parents |-> <<"E36">>,
      canonical_fields |-> <<"label", "type", "notes">>, shortcuts |-> <<>>],
     [code |-> "E38", label |-> <<"I", "m", "a", "g", "e">>,
      abstract |-> FALSE, parents |-> <<"E36">>,
      canonical_fields |-> <<"label", "type", "notes">>, shortcuts |-> <<>>],
     [code |-> "E39", label |-> <<"A", "c", "t", "o", "r">>,
      abstract |-> TRUE, parents |-> <<"E1">>,
      canonical_fields |-> <<"label", "type", "notes">>, shortcuts |-> <<>>],
     [code |-> "E40", label |-> <<"L", "e", "g", "a", "l", " ", "B", "o", "d", "y">>,
      abstract |-> FALSE, parents |-> <<"E39">>,
      canonical_fields |-> <<"label", "type", "notes">>, shortcuts |-> <<>>],
     [code |-> "E41", label |-> <<"A", "p", "p", "e", "l", "l", "a", "t", "i", "o", "n">>,
      abstract |-> FALSE, parents |-> <<"E28">>,
      canonical_fields |-> <<"label", "type", "notes">>, shortcuts |-> <<>>],
     [code |-> "E42", label |-> <<"I", "d", "e", "n", "t", "i", "f", "i", "e", "r">>,
      abstract |-> FALSE, parents |-> <<"E28">>,
      canonical_fields |-> <<"label", "type", "notes">>, shortcuts |-> <<>>],
     [code |-> "E43", label |-> <<"P", "l", "a", "c", "e">>,
      abstract |-> TRUE, parents |-> <<"E1">>,
      canonical_fields |-> <<"label", "type", "notes">>, shortcuts |-> <<>>],
     [code |-> "E44", label |-> <<"P", "l", "a", "c", "e", " ", "A", "p", "p", "e", "l", "l", "a", "t", "i", "o", "n">>,
      abstract |-> FALSE, parents |-> <<"E41">>,
      canonical_fields |-> <<"label", "type", "notes">>, shortcuts |-> <<>>],
     [code |-> "E45", label |-> <<"A", "d", "d", "r", "e", "s", "s">>,
      abstract |-> FALSE, parents |-> <<"E44">>,
      canonical_fields |-> <<"label", "type", "notes">>, shortcuts |-> <<>>],
     [code |-> "E46", label |-> <<"S", "e", "c", "t", "i", "o", "n">>,
      abstract |-> FALSE, parents |-> <<"E43">>,
      canonical_fields |-> <<"label", "type", "notes">>, shortcuts |-> <<>>],
     [code |-> "E47", label |-> <<"S", "p", "a", "t", "i", "a", "l", " ", "C", "o", "o", "r", "d", "i", "n", "a", "t", "e", "s">>,
      abstract |-> FALSE, parents |-> <<"E28">>,
      canonical_fields |-> <<"label", "type", "notes">>, shortcuts |-> <<>>],
     [code |-> "E48", label |-> <<"P", "l", "a", "c", "e", " ", "N", "a", "m", "e">>,
      abstract |-> FALSE, parents |-> <<"E44">>,
      canonical_fields |-> <<"label", "type", "notes">>, shortcuts |-> <<>>],
     [code |-> "E49", label |-> <<"T", "i", "m", "e", " ", "A", "p", "p", "e", "l", "l", "a", "t", "i", "o", "n">>,
      abstract |-> FALSE, parents |-> <<"E41">>,
      canonical_fields |-> <<"label", "type", "notes">>, shortcuts |-> <<>>],
     [code |-> "E50", label |-> <<"D", "a", "t", "e">>,
      abstract |-> FALSE, parents |-> <<"E49">>,
      canonical_fields |-> <<"label", "type", "notes">>, shortcuts |-> <<>>],
     [code |-> "E51", label |-> <<"C", "o", "n", "t", "a", "c", "t", " ", "P", "o", "i", "n", "t">>,
      abstract |-> FALSE, parents |-> <<"E45">>,
      canonical_fields |-> <<"label", "type", "notes">>, shortcuts |-> <<>>],
     [code |-> "E52", label |-> <<"T", "i", "m", "e", "-", "S", "p", "a", "n">>,
      abstract |-> FALSE, parents |-> <<"E1">>,
      canonical_fields |-> <<"label", "type", "notes", "begin_of_the_begin", "end_of_the_end">>, shortcuts |-> <<[property |-> "P79", alias_field |-> "begin_of_the_begin"], [property |-> "P80", alias_field |-> "end_of_the_end"]>>],
     [code |-> "E53", label |-> <<"P", "l", "a", "c", "e">>,
      abstract |-> FALSE, parents |-> <<"E43">>,
      canonical_fields |-> <<"label", "type", "notes">>, shortcuts |-> <<>>],
     [code |-> "E54", label |-> <<"D", "i", "m", "e", "n", "s", "i", "o", "n">>,
      abstract |-> FALSE, parents |-> <<"E28">>,
      canonical_fields |-> <<"label", "type", "notes">>, shortcuts |-> <<>>],
     [code |-> "E55", label |-> <<"T", "y", "p", "e">>,
      abstract |-> FALSE, parents |-> <<"E28">>,
      canonical_fields |-> <<"label", "type", "notes">>, shortcuts |-> <<>>],
     [code |-> "E56", label |-> <<"L", "a", "n", "g", "u", "a", "g", "e">>,
      abstract |-> FALSE, parents |-> <<"E55">>,
      canonical_fields |-> <<"label", "type", "notes">>, shortcuts |-> <<>>],
     [code |-> "E57", label |-> <<"M", "a", "t", "e", "r", "i", "a", "l">>,
      abstract |-> FALSE, parents |-> <<"E55">>,
      canonical_fields |-> <<"label", "type", "notes">>, shortcuts |-> <<>>],
     [code |-> "E58", label |-> <<"M", "e", "a", "s", "u", "r", "e", "m", "e", "n", "t", " ", "U", "n", "i", "t">>,
      abstract |-> FALSE, parents |-> <<"E55">>,
      canonical_fields |-> <<"label", "type", "notes">>, shortcuts |-> <<>>],
     [code |-> "E59", label |-> <<"P", "r", "i", "m", "i", "t", "i", "v", "e", " ", "V", "a", "l", "u", "e">>,
      abstract |-> TRUE, parents |-> <<"E1">>,
      canonical_fields |-> <<"label", "type", "notes">>, shortcuts |-> <<>>],
     [code |-> "E60", label |-> <<"N", "u", "m", "b", "e", "r">>,
      abstract |-> FALSE, parents |-> <<"E59">>,
      canonical_fields |-> <<"label", "type", "notes">>, shortcuts |-> <<>>],
     [code |-> "E61", label |-> <<"T", "i", "m", "e", " ", "P", "r", "i", "m", "i", "t", "i", "v", "e">>,
      abstract |-> FALSE, parents |-> <<"E59">>,
      canonical_fields |-> <<"label", "type", "notes">>, shortcuts |-> <<>>],
     [code |-> "E62", label |-> <<"S", "t", "r", "i", "n", "g">>,
      abstract |-> FALSE, parents |-> <<"E59">>,
      canonical_fields |-> <<"label", "type", "notes">>, shortcuts |-> <<>>],
     [code |-> "E63", label |-> <<"B", "e", "g", "i", "n", "n", "i", "n", "g", " ", "o", "f", " ", "E", "x", "i", "s", "t", "e", "n", "c", "e">>,
      abstract |-> FALSE, parents |-> <<"E5">>,
      canonical_fields |-> <<"label", "type", "notes", "timespan", "took_place_at">>, shortcuts |-> <<[property |-> "P4", alias_field |-> "timespan"], [property |-> "P7", alias_field |-> "took_place_at"]>>],
     [code |-> "E64", label |-> <<"E", "n", "d", " ", "o", "f", " ", "E", "x", "i", "s", "t", "e", "n", "c", "e">>,
      abstract |-> FALSE, parents |-> <<"E5">>,
      canonical_fields |-> <<"label", "type", "notes", "timespan", "took_place_at">>, shortcuts |-> <<[property |-> "P4", alias_field |-> "timespan"], [property |-> "P7", alias_field |-> "took_place_at"]>>],
     [code |-> "E65", label |-> <<"C", "r", "e", "a", "t", "i", "o", "n">>,
      abstract |-> FALSE, parents |-> <<"E63">>,
      canonical_fields |-> <<"label", "type", "notes", "timespan", "took_place_at">>, shortcuts |-> <<[property |-> "P4", alias_field |-> "timespan"], [property |-> "P7", alias_field |-> "took_place_at"]>>],
     [code |-> "E66", label |-> <<"F", "o", "r", "m", "a", "t", "i", "o", "n">>,
      abstract |-> FALSE, parents |-> <<"E63">>,
      canonical_fields |-> <<"label", "type", "notes", "timespan", "took_place_at">>, shortcuts |-> <<[property |-> "P4", alias_field |-> "timespan"], [property |-> "P7", alias_field |-> "took_place_at"]>>],
     [code |-> "E67", label |-> <<"B", "i", "r", "t", "h">>,
      abstract |-> FALSE, parents |-> <<"E66">>,
      canonical_fields |-> <<"label", "type", "notes", "timespan", "took_place_at">>, shortcuts |-> <<[property |-> "P4", alias_field |-> "timespan"], [property |-> "P7", alias_field |-> "took_place_at"]>>],
     [code |-> "E68", label |-> <<"D", "e", "a", "t", "h">>,
      abstract |-> FALSE, parents |-> <<"E64">>,
      canonical_fields |-> <<"label", "type", "notes", "timespan", "took_place_at">>, shortcuts |-> <<[property |-> "P4", alias_field |-> "timespan"], [property |-> "P7", alias_field |-> "took_place_at"]>>],
     [code |-> "E69", label |-> <<"D", "e", "a", "t", "h">>,
      abstract |-> FALSE, parents |-> <<"E64">>,
      canonical_fields |-> <<"label", "type", "notes", "timespan", "took_place_at">>, shortcuts |-> <<[property |-> "P4", alias_field |-> "timespan"], [property |-> "P7", alias_field |-> "took_place_at"]>>],
     [code |-> "E70", label |-> <<"T", "h", "i", "n", "g">>,
      abstract |-> TRUE, parents |-> <<"E1">>,
      canonical_fields |-> <<"label", "type", "notes">>, shortcuts |-> <<>>],
     [code |-> "E71", label |-> <<"H", "u", "m", "a", "n", "-", "M", "a", "d", "e", " ", "T", "h", "i", "n", "g">>,
      abstract |-> FALSE, parents |-> <<"E70">>,
      canonical_fields |-> <<"label", "type", "notes">>, shortcuts |-> <<>>],
     [code |-> "E72", label |-> <<"L", "e", "g", "a", "l", " ", "O", "b", "j", "e", "c", "t">>,
      abstract |-> FALSE, parents |-> <<"E70">>,
      canonical_fields |-> <<"label", "type", "notes">>, shortcuts |-> <<>>],
     [code |-> "E73", label |-> <<"I", "n", "f", "o", "r", "m", "a", "t", "i", "o", "n", " ", "O", "b", "j", "e", "c", "t">>,
      abstract |-> FALSE, parents |-> <<"E70">>,
      canonical_fields |-> <<"label", "type", "notes">>, shortcuts |-> <<>>],
     [code |-> "E74", label |-> <<"G", "r", "o", "u", "p">>,
      abstract |-> FALSE, parents |-> <<"E39">>,
      canonical_fields |-> <<"label", "type", "notes">>, shortcuts |-> <<>>],
     [code |-> "E75", label |-> <<"C", "o", "n", "c", "e", "p", "t", "u", "a", "l", " ", "O", "b", "j", "e", "c", "t", " ", "A", "p", "p", "e", "l", "l", "a", "t", "i", "o", "n">>,
      abstract |-> FALSE, parents |-> <<"E41">>,
      canonical_fields |-> <<"label", "type", "notes">>, shortcuts |-> <<>>],
     [code |-> "E76", label |-> <<"C", "o", "n", "c", "e", "p", "t", "u", "a", "l", " ", "O", "b", "j", "e", "c", "t", " ", "I", "d", "e", "n", "t", "i", "f", "i", "e", "r">>,
      abstract |-> FALSE, parents |-> <<"E42">>,
      canonical_fields |-> <<"label", "type", "notes">>, shortcuts |-> <<>>],
     [code |-> "E77", label |-> <<"P", "e", "r", "s", "i", "s", "t", "e", "n", "t", " ", "I", "t", "e", "m">>,
      abstract |-> FALSE, parents |-> <<"E1">>,
      canonical_fields |-> <<"label", "type", "notes">>, shortcuts |-> <<>>],
     [code |-> "E78", label |-> <<"C", "u", "r", "a", "t", "e", "d", " ", "H", "o", "l", "d", "i", "n", "g">>,
      abstract |-> FALSE, parents |-> <<"E77">>,
      canonical_fields |-> <<"label", "type", "notes">>, shortcuts |-> <<>>],
     [code |-> "E79", label |-> <<"P", "a", "r", "t", " ", "A", "d", "d", "i", "t", "i", "o", "n">>,
      abstract |-> FALSE, parents |-> <<"E11">>,
      canonical_fields |-> <<"label", "type", "notes", "timespan", "took_place_at">>, shortcuts |-> <<[property |-> "P4", alias_field |-> "timespan"], [property |-> "P7", alias_field |-> "took_place_at"]>>],
     [code |-> "E80", label |-> <<"P", "a", "r", "t", " ", "R", "e", "m", "o", "v", "a", "l">>,
      abstract |-> FALSE, parents |-> <<"E11">>,
      canonical_fields |-> <<"label", "type", "notes", "timespan", "took_place_at">>, shortcuts |-> <<[property |-> "P4", alias_field |-> "timespan"], [property |-> "P7", alias_field |-> "took_place_at"]>>],
     [code |-> "E81", label |-> <<"T", "r", "a", "n", "s", "f", "o", "r", "m", "a", "t", "i", "o", "n">>,
      abstract |-> FALSE, parents |-> <<"E11">>,
      canonical_fields |-> <<"label", "type", "notes", "timespan", "took_place_at">>, shortcuts |-> <<[property |-> "P4", alias_field |-> "timespan"], [property |-> "P7", alias_field |-> "took_place_at"]>>],
     [code |-> "E82", label |-> <<"A", "c", "t", "o", "r", " ", "A", "p", "p", "e", "l", "l", "a", "t", "i", "o", "n">>,
      abstract |-> FALSE, parents |-> <<"E75">>,
      canonical_fields |-> <<"label", "type", "notes">>, shortcuts |-> <<>>],
     [code |-> "E83", label |-> <<"T", "y", "p", "e", " ", "C", "r", "e", "a", "t", "i", "o", "n">>,
      abstract |-> FALSE, parents |-> <<"E65">>,
      canonical_fields |-> <<"label", "type", "notes", "timespan", "took_place_at">>, shortcuts |-> <<[property |-> "P4", alias_field |-> "timespan"], [property |-> "P7", alias_field |-> "took_place_at"]>>],
     [code |-> "E84", label |-> <<"I", "n", "f", "o", "r", "m", "a", "t", "i", "o", "n", " ", "C", "a", "r", "r", "i", "e", "r">>,
      abstract |-> FALSE, parents |-> <<"E73">>,
      canonical_fields |-> <<"label", "type", "notes">>, shortcuts |-> <<>>],
     [code |-> "E85", label |-> <<"J", "o", "i", "n", "i", "n", "g">>,
      abstract |-> FALSE, parents |-> <<"E7">>,
      canonical_fields |-> <<"label", "type", "notes", "timespan", "took_place_at">>, shortcuts |-> <<[property |-> "P4", alias_field |-> "timespan"], [property |-> "P7", alias_field |-> "took_place_at"]>>],
     [code |-> "E86", label |-> <<"L", "e", "a", "v", "i", "n", "g">>,
      abstract |-> FALSE, parents |-> <<"E7">>,
      canonical_fields |-> <<"label", "type", "notes", "timespan", "took_place_at">>, shortcuts |-> <<[property |-> "P4", alias_field |-> "timespan"], [property |-> "P7", alias_field |-> "took_place_at"]>>],
     [code |-> "E87", label |-> <<"C", "u", "r", "a", "t", "i", "o", "n", " ", "A", "c", "t", "i", "v", "i", "t", "y">>,
      abstract |-> FALSE, parents |-> <<"E7">>,
      canonical_fields |-> <<"label", "type", "notes", "timespan", "took_place_at">>, shortcuts |-> <<[property |-> "P4", alias_field |-> "timespan"], [property |-> "P7", alias_field |-> "took_place_at"]>>],
     [code |-> "E88", label |-> <<"P", "r", "o", "p", "o", "s", "i", "t", "i", "o", "n", "a", "l", " ", "O", "b", "j", "e", "c", "t">>,
      abstract |-> FALSE, parents |-> <<"E28">>,
      canonical_fields |-> <<"label", "type", "notes">>, shortcuts |-> <<>>],
     [code |-> "E89", label |-> <<"P", "r", "o", "p", "o", "s", "i", "t", "i", "o", "n", "a", "l", " ", "S", "t", "a", "t", "e", "m", "e", "n", "t">>,
      abstract |-> FALSE, parents |-> <<"E88">>,
      canonical_fields |-> <<"label", "type", "notes">>, shortcuts |-> <<>>],
     [code |-> "E90", label |-> <<"S", "y", "m", "b", "o", "l", "i", "c", " ", "O", "b", "j", "e", "c", "t">>,
      abstract |-> FALSE, parents |-> <<"E28">>,
      canonical_fields |-> <<"label", "type", "notes">>, shortcuts |-> <<>>],
     [code |-> "E91", label |-> <<"K", "n", "o", "w", "l", "e", "d", "g", "e", " ", "O", "b", "j", "e", "c", "t">>,
      abstract |-> FALSE, parents |-> <<"E90">>,
      canonical_fields |-> <<"label", "type", "notes">>, shortcuts |-> <<>>],
     [code |-> "E92", label |-> <<"S", "p", "a", "c", "e", "t", "i", "m", "e", " ", "V", "o", "l", "u", "m", "e">>,
      abstract |-> FALSE, parents |-> <<"E1">>,
      canonical_fields |-> <<"label", "type", "notes">>, shortcuts |-> <<>>],
     [code |-> "E93", label |-> <<"P", "r", "e", "s", "e", "n", "c", "e">>,
      abstract |-> FALSE, parents |-> <<"E92">>,
      canonical_fields |-> <<"label", "type", "notes">>, shortcuts |-> <<>>],
     [code |-> "E94", label |-> <<"S", "p", "a", "c", "e">>,
      abstract |-> FALSE, parents |-> <<"E92">>,
      canonical_fields |-> <<"label", "type", "notes">>, shortcuts |-> <<>>],
     [code |-> "E95", label |-> <<"S", "p", "a", "c", "e", "t", "i", "m", "e", " ", "P", "r", "i", "m", "i", "t", "i", "v", "e">>,
      abstract |-> FALSE, parents |-> <<"E59">>,
      canonical_fields |-> <<"label", "type", "notes">>, shortcuts |-> <<>>],
     [code |-> "E96", label |-> <<"S", "p", "a", "c", "e", "t", "i", "m", "e", " ", "V", "o", "l", "u", "m", "e">>,
      abstract |-> FALSE, parents |-> <<"E92">>,
      canonical_fields |-> <<"label", "type", "notes">>, shortcuts |-> <<>>],
     [code |-> "E97", label |-> <<"M", "o", "n", "e", "t", "a", "r", "y", " ", "A", "m", "o", "u", "n", "t">>,
      abstract |-> FALSE, parents |-> <<"E28">>,
      canonical_fields |-> <<"label", "type", "notes">>, shortcuts |-> <<>>],
     [code |-> "E98", label |-> <<"C", "u", "r", "r", "e", "n", "c", "y">>,
      abstract |-> FALSE, parents |-> <<"E55">>,
      canonical_fields |-> <<"label", "type", "notes">>, shortcuts |-> <<>>],
     [code |-> "E99", label |-> <<"P", "r", "o", "d", "u", "c", "t", " ", "T", "y", "p", "e">>,
      abstract |-> FALSE, parents |-> <<"E55">>,
      canonical_fields |-> <<"label", "type", "notes">>, shortcuts |-> <<>>],
     [code |-> "E23", label |-> <<"C", "o", "n", "c", "e", "p", "t", "u", "a", "l", " ", "O", "b", "j", "e", "c", "t">>,
      abstract |-> TRUE, parents |-> <<"E1">>,
      canonical_fields |-> <<"label", "type", "notes">>, shortcuts |-> <<>>],
     [code |-> "E38", label |-> <<"I", "m", "a", "g", "e">>,
      abstract |-> FALSE, parents |-> <<"E36">>,
      canonical_fields |-> <<"label", "type", "notes">>, shortcuts |-> <<>>],
     [code |-> "E40", label |-> <<"L", "e", "g", "a", "l", " ", "B", "o", "d", "y">>,
      abstract |-> FALSE, parents |-> <<"E39">>,
      canonical_fields |-> <<"label", "type", "notes">>, shortcuts |-> <<>>],
     [code |-> "E44", label |-> <<"P", "l", "a", "c", "e", " ", "A", "p", "p", "e", "l", "l", "a", "t", "i", "o", "n">>,
      abstract |-> FALSE, parents |-> <<"E41">>,
      canonical_fields |-> <<"label", "type", "notes">>, shortcuts |-> <<>>],
     [code |-> "E45", label |-> <<"A", "d", "d", "r", "e", "s", "s">>,
      abstract |-> FALSE, parents |-> <<"E44">>,
      canonical_fields |-> <<"label", "type", "notes">>, shortcuts |-> <<>>],
     [code |-> "E46", label |-> <<"S", "e", "c", "t", "i", "o", "n">>,
      abstract |-> FALSE, parents |-> <<"E43">>,
      canonical_fields |-> <<"label", "type", "notes">>, shortcuts |-> <<>>],
     [code |-> "E47", label |-> <<"S", "p", "a", "t", "i", "a", "l", " ", "C", "o", "o", "r", "d", "i", "n", "a", "t", "e", "s">>,
      abstract |-> FALSE, parents |-> <<"E28">>,
      canonical_fields |-> <<"label", "type", "notes">>, shortcuts |-> <<>>],
     [code |-> "E48", label |-> <<"P", "l", "a", "c", "e", " ", "N", "a", "m", "e">>,
      abstract |-> FALSE, parents |-> <<"E44">>,
      canonical_fields |-> <<"label", "type", "notes">>, shortcuts |-> <<>>],
     [code |-> "E49", label |-> <<"T", "i", "m", "e", " ", "A", "p", "p", "e", "l", "l", "a", "t", "i", "o", "n">>,
      abstract |-> FALSE, parents |-> <<"E41">>,
      canonical_fields |-> <<"label", "type", "notes">>, shortcuts |-> <<>>],
     [code |-> "E50", label |-> <<"D", "a", "t", "e">>,
      abstract |-> FALSE, parents |-> <<"E49">>,
      canonical_fields |-> <<"label", "type", "notes">>, shortcuts |-> <<>>],
     [code |-> "E51", label |-> <<"C", "o", "n", "t", "a", "c", "t", " ", "P", "o", "i", "n", "t">>,
      abstract |-> FALSE, parents |-> <<"E45">>,
      canonical_fields |-> <<"label", "type", "notes">>, shortcuts |-> <<>>],
     [code |-> "E54", label |-> <<"D", "i", "m", "e", "n", "s", "i", "o", "n">>,
      abstract |-> FALSE, parents |-> <<"E28">>,
      canonical_fields |-> <<"label", "type", "notes">>, shortcuts |-> <<>>],
     [code |-> "E56", label |-> <<"L", "a", "n", "g", "u", "a", "g", "e">>,
      abstract |-> FALSE, parents |-> <<"E55">>,
      canonical_fields |-> <<"label", "type", "notes">>, shortcuts |-> <<>>],
     [code |-> "E57", label |-> <<"M", "a", "t", "e", "r", "i", "a", "l">>,
      abstract |-> FALSE, parents |-> <<"E55">>,
      canonical_fields |-> <<"label", "type", "notes">>, shortcuts |-> <<>>],
     [code |-> "E58", label |-> <<"M", "e", "a", "s", "u", "r", "e", "m", "e", "n", "t", " ", "U", "n", "i", "t">>,
      abstract |-> FALSE, parents |-> <<"E55">>,
      canonical_fields |-> <<"label", "type", "notes">>, shortcuts |-> <<>>],
     [code |-> "E60", label |-> <<"N", "u", "m", "b", "e", "r">>,
      abstract |-> FALSE, parents |-> <<"E59">>,
      canonical_fields |-> <<"label", "type", "notes">>, shortcuts |-> <<>>],
     [code |-> "E61", label |-> <<"T", "i", "m", "e", " ", "P", "r", "i", "m", "i", "t", "i", "v", "e">>,
      abstract |-> FALSE, parents |-> <<"E59">>,
      canonical_fields |-> <<"label", "type", "notes">>, shortcuts |-> <<>>],
     [code |-> "E62", label |-> <<"S", "t", "r", "i", "n", "g">>,
      abstract |-> FALSE, parents |-> <<"E59">>,
      canonical_fields |-> <<"label", "type", "notes">>, shortcuts |-> <<>>],
     [code |-> "E63", label |-> <<"B", "e", "g", "i", "n", "n", "i", "n", "g", " ", "o", "f", " ", "E", "x", "i", "s", "t", "e", "n", "c", "e">>,
      abstract |-> FALSE, parents |-> <<"E5">>,
      canonical_fields |-> <<"label", "type", "notes", "timespan", "took_place_at">>, shortcuts |-> <<[property |-> "P4", alias_field |-> "timespan"], [property |-> "P7", alias_field |-> "took_place_at"]>>],
     [code |-> "E64", label |-> <<"E", "n", "d", " ", "o", "f", " ", "E", "x", "i", "s", "t", "e", "n", "c", "e">>,
      abstract |-> FALSE, parents |-> <<"E5">>,
      canonical_fields |-> <<"label", "type", "notes", "timespan", "took_place_at">>, shortcuts |-> <<[property |-> "P4", alias_field |-> "timespan"], [property |-> "P7", alias_field |-> "took_place_at"]>>],
     [code |-> "E65", label |-> <<"C", "r", "e", "a", "t", "i", "o", "n">>,
      abstract |-> FALSE, parents |-> <<"E63">>,
      canonical_fields |-> <<"label", "type", "notes", "timespan", "took_place_at">>, shortcuts |-> <<[property |-> "P4", alias_field |-> "timespan"], [property |-> "P7", alias_field |-> "took_place_at"]>>],
     [code |-> "E66", label |-> <<"F", "o", "r", "m", "a", "t", "i", "o", "n">>,
      abstract |-> FALSE, parents |-> <<"E63">>,
      canonical_fields |-> <<"label", "type", "notes", "timespan", "took_place_at">>, shortcuts |-> <<[property |-> "P4", alias_field |-> "timespan"], [property |-> "P7", alias_field |-> "took_place_at"]>>],
     [code |-> "E67", label |-> <<"B", "i", "r", "t", "h">>,
      abstract |-> FALSE, parents |-> <<"E66">>,
      canonical_fields |-> <<"label", "type", "notes", "timespan", "took_place_at">>, shortcuts |-> <<[property |-> "P4", alias_field |-> "timespan"], [property |-> "P7", alias_field |-> "took_place_at"]>>],
     [code |-> "E68", label |-> <<"D", "e", "a", "t", "h">>,
      abstract |-> FALSE, parents |-> <<"E64">>,
      canonical_fields |-> <<"label", "type", "notes", "timespan", "took_place_at">>, shortcuts |-> <<[property |-> "P4", alias_field |-> "timespan"], [property |-> "P7", alias_field |-> "took_place_at"]>>],
     [code |-> "E69", label |-> <<"D", "e", "a", "t", "h">>,
      abstract |-> FALSE, parents |-> <<"E64">>,
      canonical_fields |-> <<"label", "type", "notes", "timespan", "took_place_at">>, shortcuts |-> <<[property |-> "P4", alias_field |-> "timespan"], [property |-> "P7", alias_field |-> "took_place_at"]>>],
     [code |-> "E70", label |-> <<"T", "h", "i", "n", "g">>,
      abstract |-> TRUE, parents |-> <<"E1">>,
      canonical_fields |-> <<"label", "type", "notes">>, shortcuts |-> <<>>],
     [code |-> "E71", label |-> <<"H", "u", "m", "a", "n", "-", "M", "a", "d", "e", " ", "T", "h", "i", "n", "g">>,
      abstract |-> FALSE, parents |-> <<"E70">>,
      canonical_fields |-> <<"label", "type", "notes">>, shortcuts |-> <<>>],
     [code |-> "E72", label |-> <<"L", "e", "g", "a", "l", " ", "O", "b", "j", "e", "c", "t">>,
      abstract |-> FALSE, parents |-> <<"E70">>,
      canonical_fields |-> <<"label", "type", "notes">>, shortcuts |-> <<>>],
     [code |-> "E73", label |-> <<"I", "n", "f", "o", "r", "m", "a", "t", "i", "o", "n", " ", "O", "b", "j", "e", "c", "t">>,
      abstract |-> FALSE, parents |-> <<"E70">>,
      canonical_fields |-> <<"label", "type", "notes">>, shortcuts |-> <<>>],
     [code |-> "E75", label |-> <<"C", "o", "n", "c", "e", "p", "t", "u", "a", "l", " ", "O", "b", "j", "e", "c", "t", " ", "A", "p", "p", "e", "l", "l", "a", "t", "i", "o", "n">>,
      abstract |-> FALSE, parents |-> <<"E41">>,
      canonical_fields |-> <<"label", "type", "notes">>, shortcuts |-> <<>>],
     [code |-> "E76", label |-> <<"C", "o", "n", "c", "e", "p", "t", "u", "a", "l", " ", "O", "b", "j", "e", "c", "t", " ", "I", "d", "e", "n", "t", "i", "f", "i", "e", "r">>,
      abstract |-> FALSE, parents |-> <<"E42">>,
      canonical_fields |-> <<"label", "type", "notes">>, shortcuts |-> <<>>],
     [code |-> "E77", label |-> <<"P", "e", "r", "s", "i", "s", "t", "e", "n", "t", " ", "I", "t", "e", "m">>,
      abstract |-> FALSE, parents |-> <<"E1">>,
      canonical_fields |-> <<"label", "type", "notes">>, shortcuts |-> <<>>],
     [code |-> "E78", label |-> <<"C", "u", "r", "a", "t", "e", "d", " ", "H", "o", "l", "d", "i", "n", "g">>,
      abstract |-> FALSE, parents |-> <<"E77">>,
      canonical_fields |-> <<"label", "type", "notes">>, shortcuts |-> <<>>],
     [code |-> "E79", label |-> <<"P", "a", "r", "t", " ", "A", "d", "d", "i", "t", "i", "o", "n">>,
      abstract |-> FALSE, parents |-> <<"E11">>,
      canonical_fields |-> <<"label", "type", "notes", "timespan", "took_place_at">>, shortcuts |-> <<[property |-> "P4", alias_field |-> "timespan"], [property |-> "P7", alias_field |-> "took_place_at"]>>],
     [code |-> "E80", label |-> <<"P", "a", "r", "t", " ", "R", "e", "m", "o", "v", "a", "l">>,
      abstract |-> FALSE, parents |-> <<"E11">>,
      canonical_fields |-> <<"label", "type", "notes", "timespan", "took_place_at">>, shortcuts |-> <<[property |-> "P4", alias_field |-> "timespan"], [property |-> "P7", alias_field |-> "took_place_at"]>>],
     [code |-> "E81", label |-> <<"T", "r", "a", "n", "s", "f", "o", "r", "m", "a", "t", "i", "o", "n">>,
      abstract |-> FALSE, parents |-> <<"E11">>,
      canonical_fields |-> <<"label", "type", "notes", "timespan", "took_place_at">>, shortcuts |-> <<[property |-> "P4", alias_field |-> "timespan"], [property |-> "P7", alias_field |-> "took_place_at"]>>],
     [code |-> "E82", label |-> <<"A", "c", "t", "o", "r", " ", "A", "p", "p", "e", "l", "l", "a", "t", "i", "o", "n">>,
      abstract |-> FALSE, parents |-> <<"E75">>,
      canonical_fields |-> <<"label", "type", "notes">>, shortcuts |-> <<>>],
     [code |-> "E83", label |-> <<"T", "y", "p", "e", " ", "C", "r", "e", "a", "t", "i", "o", "n">>,
      abstract |-> FALSE, parents |-> <<"E65">>,
      canonical_fields |-> <<"label", "type", "notes", "timespan", "took_place_at">>, shortcuts |-> <<[property |-> "P4", alias_field |-> "timespan"], [property |-> "P7", alias_field |-> "took_place_at"]>>],
     [code |-> "E84", label |-> <<"I", "n", "f", "o", "r", "m", "a", "t", "i", "o", "n", " ", "C", "a", "r", "r", "i", "e", "r">>,
      abstract |-> FALSE, parents |-> <<"E73">>,
      canonical_fields |-> <<"label", "type", "notes">>, shortcuts |-> <<>>],
     [code |-> "E85", label |-> <<"J", "o", "i", "n", "i", "n", "g">>,
      abstract |-> FALSE, parents |-> <<"E7">>,
      canonical_fields |-> <<"label", "type", "notes", "timespan", "took_place_at">>, shortcuts |-> <<[property |-> "P4", alias_field |-> "timespan"], [property |-> "P7", alias_field |-> "took_place_at"]>>],
     [code |-> "E86", label |-> <<"L", "e", "a", "v", "i", "n", "g">>,
      abstract |-> FALSE, parents |-> <<"E7">>,
      canonical_fields |-> <<"label", "type", "notes", "timespan", "took_place_at">>, shortcuts |-> <<[property |-> "P4", alias_field |-> "timespan"], [property |-> "P7", alias_field |-> "took_place_at"]>>],
     [code |-> "E87", label |-> <<"C", "u", "r", "a", "t", "i", "o", "n", " ", "A", "c", "t", "i", "v", "i", "t", "y">>,
      abstract |-> FALSE, parents |-> <<"E7">>,
      canonical_fields |-> <<"label", "type", "notes", "timespan", "took_place_at">>, shortcuts |-> <<[property |-> "P4", alias_field |-> "timespan"], [property |-> "P7", alias_field |-> "took_place_at"]>>],
     [code |-> "E88", label |-> <<"P", "r", "o", "p", "o", "s", "i", "t", "i", "o", "n", "a", "l", " ", "O", "b", "j", "e", "c", "t">>,
      abstract |-> FALSE, parents |-> <<"E28">>,
      canonical_fields |-> <<"label", "type", "notes">>, shortcuts |-> <<>>],
     [code |-> "E89", label |-> <<"P", "r", "o", "p", "o", "s", "i", "t", "i", "o", "n", "a", "l", " ", "S", "t", "a", "t", "e", "m", "e", "n", "t">>,
      abstract |-> FALSE, parents |-> <<"E88">>,
      canonical_fields |-> <<"label", "type", "notes">>, shortcuts |-> <<>>],
     [code |-> "E90", label |-> <<"S", "y", "m", "b", "o", "l", "i", "c", " ", "O", "b", "j", "e", "c", "t">>,
      abstract |-> FALSE, parents |-> <<"E28">>,
      canonical_fields |-> <<"label", "type", "notes">>, shortcuts |-> <<>>],
     [code |-> "E91", label |-> <<"K", "n", "o", "w", "l", "e", "d", "g", "e", " ", "O", "b", "j", "e", "c", "t">>,
      abstract |-> FALSE, parents |-> <<"E90">>,
      canonical_fields |-> <<"label", "type", "notes">>, shortcuts |-> <<>>],
     [code |-> "E92", label |-> <<"S", "p", "a", "c", "e", "t", "i", "m", "e", " ", "V", "o", "l", "u", "m", "e">>,
      abstract |-> FALSE, parents |-> <<"E1">>,
      canonical_fields |-> <<"label", "type", "notes">>, shortcuts |-> <<>>],
     [code |-> "E93", label |-> <<"P", "r", "e", "s", "e", "n", "c", "e">>,
      abstract |-> FALSE, parents |-> <<"E92">>,
      canonical_fields |-> <<"label", "type", "notes">>, shortcuts |-> <<>>],
     [code |-> "E94", label |-> <<"S", "p", "a", "c", "e">>,
      abstract |-> FALSE, parents |-> <<"E92">>,
      canonical_fields |-> <<"label", "type", "notes">>, shortcuts |-> <<>>],
     [code |-> "E95", label |-> <<"S", "p", "a", "c", "e", "t", "i", "m", "e", " ", "P", "r", "i", "m", "i", "t", "i", "v", "e">>,
      abstract |-> FALSE, parents |-> <<"E59">>,
      canonical_fields |-> <<"label", "type", "notes">>, shortcuts |-> <<>>],
     [code |-> "E96", label |-> <<"S", "p", "a", "c", "e", "t", "i", "m", "e", " ", "V", "o", "l", "u", "m", "e">>,
      abstract |-> FALSE, parents |-> <<"E92">>,
      canonical_fields |-> <<"label", "type", "notes">>, shortcuts |-> <<>>],
     [code |-> "E97", label |-> <<"M", "o", "n", "e", "t", "a", "r", "y", " ", "A", "m", "o", "u", "n", "t">>,
      abstract |-> FALSE, parents |-> <<"E28">>,
      canonical_fields |-> <<"label", "type", "notes">>, shortcuts |-> <<>>],
     [code |-> "E98", label |-> <<"C", "u", "r", "r", "e", "n", "c", "y">>,
      abstract |-> FALSE, parents |-> <<"E55">>,
      canonical_fields |-> <<"label", "type", "notes">>, shortcuts |-> <<>>]
  >>

\* Mutant of imported_P: the domain of P108 was edited in P and the indexes
\* were not regenerated.
imported_P_redomained == [ShippedP EXCEPT !["P108"].domain = "E24"]

\* Mutant of imported_P: the entry of P108i names itself as its inverse.
imported_P_one_way == [ShippedP EXCEPT !["P108i"].inverse = "P108i"]

\* from ..properties import P: the registry the validators read.
imported_P == ShippedP

(***************************************************************************)
(* Values of the program.                                                  *)
(***************************************************************************)
\* ValidationSeverity
WARN == "warn"
RAISE == "raise"
IGNORE == "ignore"
ValidationSeverity == {WARN, RAISE, IGNORE}

\* A message: the text of an f-string with the values interpolated into it.
\* Fields a text does not interpolate hold "-" or 0.
Msg(text, p_code, bound, got, entity_id, cls, cause) ==
  [text |-> text, p_code |-> p_code, bound |-> bound, got |-> got,
   entity |-> entity_id, cls |-> cls, cause |-> cause]

NoMsg == Msg("-", "-", 0, 0, "-", "-", "-")

\* An exception in flight: its type and its message (str(e)).
Exc(type, msg) == [type |-> type, msg |-> msg]
NoExc == Exc("none", NoMsg)

\* What a call produced besides its return value: the exception it raised,
\* the records it sent to the logger, the warnings it issued that the
\* warnings filter did not turn into exceptions.
Out(raised, log, warned) == [raised |-> raised, log |-> log, warned |-> warned]
Quiet == Out(NoExc, <<>>, <<>>)
LogRec(level, msg) == [level |-> level, msg |-> msg]

\* Sequential composition of two statements: the second runs only when the
\* first did not raise.
Then(a, b) ==
  IF a.raised # NoExc THEN a
  ELSE Out(b.raised, a.log \o b.log, a.warned \o b.warned)

(***************************************************************************)
(* _parse_quantifier                                                       *)
(***************************************************************************)
Digits == <<"0", "1", "2", "3", "4", "5", "6", "7", "8", "9">>

IsDigit(c) == \E d \in 1..Len(Digits) : Digits[d] = c

DigitVal(c) == (CHOOSE d \in 1..Len(Digits) : Digits[d] = c) - 1

\* First index at or after i where ".." starts in s, 0 when there is none.
RECURSIVE FindSep(_, _)
FindSep(s, i) ==
  IF i + 1 > Len(s) THEN 0
  ELSE IF s[i] = "." /\ s[i + 1] = "." THEN i
  ELSE FindSep(s, i + 1)

\* str.split(".."): the parts between non-overlapping separators, leftmost first.
RECURSIVE Split(_)
Split(s) ==
  LET i == FindSep(s, 1) IN
  IF i = 0 THEN <<s>>
  ELSE <<SubSeq(s, 1, i - 1)>> \o Split(SubSeq(s, i + 2, Len(s)))

\* The magnitude of a run of decimal digits.
RECURSIVE DigitsVal(_)
DigitsVal(s) ==
  IF Len(s) = 0 THEN 0
  ELSE 10 * DigitsVal(SubSeq(s, 1, Len(s) - 1)) + DigitVal(s[Len(s)])

\* int(str) accepts an optional sign followed by one or more digits.  (It
\* also accepts surrounding whitespace and underscores between digits; the
\* model's strings hold neither.)
IntBody(s) == IF Len(s) > 0 /\ s[1] \in {"-", "+"} THEN Tail(s) ELSE s

IsIntLiteral(s) ==
  /\ Len(IntBody(s)) > 0
  /\ \A k \in 1..Len(IntBody(s)) : IsDigit(IntBody(s)[k])

StrToInt(s) ==
  IF Len(s) > 0 /\ s[1] = "-" THEN 0 - DigitsVal(IntBody(s)) ELSE DigitsVal(IntBody(s))

\* The result of _parse_quantifier: the exception it raised, or
\* (min_count, max_count) with max_count None written as bounded = FALSE.
Parsed(raised, min_count, bounded, max_count) ==
  [raised |-> raised, min_count |-> min_count, bounded |-> bounded,
   max_count |-> max_count]

ParseError(text) == Parsed(Exc("ValueError", Msg(text, "-", 0, 0, "-", "-", "-")), 0, FALSE, 0)

\* Mutant of parse_parts: the upper bound is always converted with int().
parse_parts_int_only(parts) ==
  IF Len(parts) # 2 THEN ParseError("too many values to unpack")
  ELSE IF ~IsIntLiteral(parts[1]) THEN ParseError("invalid literal for int()")
  ELSE IF ~IsIntLiteral(parts[2]) THEN ParseError("invalid literal for int()")
  ELSE Parsed(NoExc, StrToInt(parts[1]), TRUE, StrToInt(parts[2]))

\* min_part, max_part = parts; int(min_part); "*" or int(max_part)
parse_parts(parts) ==
  IF Len(parts) # 2 THEN ParseError("too many values to unpack")
  ELSE IF ~IsIntLiteral(parts[1]) THEN ParseError("invalid literal for int()")
  ELSE IF parts[2] = <<"*">> THEN Parsed(NoExc, StrToInt(parts[1]), FALSE, 0)
  ELSE IF ~IsIntLiteral(parts[2]) THEN ParseError("invalid literal for int()")
  ELSE Parsed(NoExc, StrToInt(parts[1]), TRUE, StrToInt(parts[2]))

\* Mutant of parse_quantifier: a string without ".." is read as one number
\* that is both bounds.
parse_quantifier_exact(quantifier) ==
  IF FindSep(quantifier, 1) = 0
  THEN parse_parts(<<quantifier, quantifier>>)
  ELSE parse_parts(Split(quantifier))

parse_quantifier(quantifier) ==
  IF FindSep(quantifier, 1) = 0 THEN ParseError("Invalid quantifier format")
  ELSE parse_parts(Split(quantifier))

(***************************************************************************)
(* Entities: models/base.py.  An entity is an instance of one of the       *)
(* Python classes; py names the class, which fixes the attributes the      *)
(* instance has, and class_code is the field every constructor takes.      *)
(* An attribute holds None, one value, or a list.                          *)
(***************************************************************************)
AttrNone == [form |-> "None", items |-> <<>>]
Scalar(x) == [form |-> "scalar", items |-> <<x>>]
ListOf(xs) == [form |-> "list", items |-> xs]

\* CRMEntity(id=..., class_code=...): notes defaults to None, type to [].
CRMEntity(id, class_code) ==
  [py |-> "CRMEntity", id |-> id, class_code |-> class_code,
   attrs |-> [f \in {"notes", "type"} |->
                IF f = "type" THEN ListOf(<<>>) ELSE AttrNone]]

\* E22_HumanMadeObject adds the shortcut fields current_location and produced_by.
E22_HumanMadeObject(id, class_code, current_location, produced_by) ==
  [py |-> "E22_HumanMadeObject", id |-> id, class_code |-> class_code,
   attrs |-> [f \in {"notes", "type", "current_location", "produced_by"} |->
                CASE f = "type" -> ListOf(<<>>)
                  [] f = "current_location" -> current_location
                  [] f = "produced_by" -> produced_by
                  [] OTHER -> AttrNone]]

\* E52_TimeSpan adds the shortcut fields begin_of_the_begin and end_of_the_end.
E52_TimeSpan(id, class_code, begin_of_the_begin, end_of_the_end) ==
  [py |-> "E52_TimeSpan", id |-> id, class_code |-> class_code,
   attrs |-> [f \in {"notes", "type", "begin_of_the_begin", "end_of_the_end"} |->
                CASE f = "type" -> ListOf(<<>>)
                  [] f = "begin_of_the_begin" -> begin_of_the_begin
                  [] f = "end_of_the_end" -> end_of_the_end
                  [] OTHER -> AttrNone]]

(***************************************************************************)
(* _handle_violation                                                       *)
(***************************************************************************)
\* warnings.warn(message, CRMValidationWarning): with the filter action
\* "error" the warning is raised as an exception, otherwise it is issued.
warnings_warn(full_message) ==
  IF warnfilter = "error"
  THEN Out(Exc("CRMValidationWarning", full_message), <<>>, <<>>)
  ELSE Out(NoExc, <<>>, <<full_message>>)

\* Mutant of full_message: the message names the entity but not its class.
full_message_without_class(message, entity) ==
  [message EXCEPT !.entity = entity.id]

\* f"{message} (Entity: {entity.id}, Class: {entity.class_code})"
full_message(message, entity) ==
  [message EXCEPT !.entity = entity.id, !.cls = entity.class_code]

\* Mutant of handle_violation: every severity but IGNORE raises.
handle_violation_raising(message, severity, entity, p_code) ==
  IF severity # IGNORE
  THEN Out(Exc("CRMValidationError", full_message(message, entity)), <<>>, <<>>)
  ELSE Quiet

handle_violation(message, severity, entity, p_code) ==
  IF severity = RAISE
  THEN Out(Exc("CRMValidationError", full_message(message, entity)), <<>>, <<>>)
  ELSE IF severity = WARN
  THEN Then(Out(NoExc, <<LogRec("warning", full_message(message, entity))>>, <<>>),
            warnings_warn(full_message(message, entity)))
  ELSE Quiet

(***************************************************************************)
(* enforce_quantifier                                                      *)
(***************************************************************************)
\* Mutant of is_ignored: IGNORE is validated like any other severity.
is_ignored_never(severity) == FALSE

\* severity == ValidationSeverity.IGNORE
is_ignored(severity) == severity = IGNORE

\* Mutant of unknown_property: the lookup P[p_code] is made without the
\* membership test and fails.
unknown_property_key_error(p_code) ==
  Out(Exc("KeyError", Msg("KeyError", p_code, 0, 0, "-", "-", "-")), <<>>, <<>>)

\* logger.warning(f"Unknown property code: {p_code}"); return
unknown_property(p_code) ==
  Out(NoExc, <<LogRec("warning",
        Msg("Unknown property code", p_code, 0, 0, "-", "-", "-"))>>, <<>>)

\* Mutant of domain_mismatch: the property is enforced on every entity.
domain_mismatch_never(entity, domain) == FALSE

\* entity.class_code != domain
domain_mismatch(entity, domain) == entity.class_code # domain

\* actual_count < min_count
too_few(actual_count, min_count) == actual_count < min_count

\* Mutant of too_many: the upper bound is exclusive.
too_many_exclusive(actual_count, bounded, max_count) ==
  bounded /\ actual_count >= max_count

\* max_count is not None and actual_count > max_count
too_many(actual_count, bounded, max_count) ==
  bounded /\ actual_count > max_count

\* The statements after the parse: the two cardinality checks, or the
\* exception the parse raised.
check_cardinality(entity, p_code, actual_count, severity, parsed) ==
  IF parsed.raised # NoExc THEN Out(parsed.raised, <<>>, <<>>)
  ELSE Then(IF too_few(actual_count, parsed.min_count)
            THEN handle_violation(
                   Msg("requires at least", p_code, parsed.min_count,
                       actual_count, "-", "-", "-"), severity, entity, p_code)
            ELSE Quiet,
            IF too_many(actual_count, parsed.bounded, parsed.max_count)
            THEN handle_violation(
                   Msg("allows at most", p_code, parsed.max_count,
                       actual_count, "-", "-", "-"), severity, entity, p_code)
            ELSE Quiet)

enforce_quantifier(entity, p_code, values, severity) ==
  IF is_ignored(severity) THEN Quiet
  ELSE IF p_code \notin DOMAIN P THEN unknown_property(p_code)
  ELSE LET quantifier == P[p_code].quantifier
           domain == P[p_code].domain IN
    IF domain_mismatch(entity, domain)
    THEN Out(NoExc, <<LogRec("info",
               Msg("does not match domain", p_code, 0, 0, "-",
                   entity.class_code, domain))>>, <<>>)
    ELSE check_cardinality(entity, p_code, Len(values), severity,
                           parse_quantifier(quantifier))

(***************************************************************************)
(* _get_property_values                                                    *)
(***************************************************************************)
p_to_field ==
     ("P1" :> "identifiers") @@ ("P2" :> "type") @@ ("P3" :> "notes")
  @@ ("P4" :> "timespan") @@ ("P7" :> "took_place_at")
  @@ ("P11" :> "participants") @@ ("P53" :> "current_location")
  @@ ("P79" :> "begin_of_the_begin") @@ ("P80" :> "end_of_the_end")
  @@ ("P108" :> "produced_by")

get_property_values(entity, p_code) ==
  IF p_code \notin DOMAIN p_to_field THEN <<>>
  ELSE LET field_name == p_to_field[p_code] IN
    IF field_name \in DOMAIN entity.attrs
    THEN LET value == entity.attrs[field_name] IN
      IF value.form = "None" THEN <<>>
      ELSE IF value.form = "list" THEN value.items
      ELSE <<value.items[1]>>
    ELSE <<>>

(***************************************************************************)
(* validate_entity_quantifiers                                             *)
(***************************************************************************)
\* The loop's state after each property: the messages, what was logged and
\* warned so far, and the properties handed to enforce_quantifier.
Loop(messages, log, warned, checked) ==
  [messages |-> messages, log |-> log, warned |-> warned, checked |-> checked]

\* f"Error validating property {p_code}: {e}"
error_message(p_code, e) ==
  Msg("Error validating property", p_code, 0, 0, "-", "-", e.msg.text)

\* The except clauses: o is what the try block produced for p_code.
\* str(e) of a validation error or warning becomes a message; any other
\* exception is logged and becomes an "Error validating property" message.
catch(acc, p_code, o) ==
  IF o.raised.type \in {"CRMValidationError", "CRMValidationWarning"}
  THEN Loop(Append(acc.messages, o.raised.msg), acc.log \o o.log,
            acc.warned \o o.warned, Append(acc.checked, p_code))
  ELSE IF o.raised # NoExc
  THEN Loop(Append(acc.messages, error_message(p_code, o.raised)),
            acc.log \o o.log \o <<LogRec("error", error_message(p_code, o.raised))>>,
            acc.warned \o o.warned, Append(acc.checked, p_code))
  ELSE Loop(acc.messages, acc.log \o o.log, acc.warned \o o.warned,
            Append(acc.checked, p_code))

\* One iteration of the loop body for p_code, from loop state acc.
validate_property(entity, severity, p_code, acc) ==
  catch(acc, p_code,
        enforce_quantifier(entity, p_code,
                           get_property_values(entity, p_code), severity))

\* Mutant of validate_properties: the loop stops at the first property
\* whose check raised.
RECURSIVE validate_properties_abort(_, _, _, _, _)
validate_properties_abort(entity, severity, props, k, acc) ==
  IF k > Len(props) \/ Len(acc.messages) > 0 THEN acc
  ELSE validate_properties_abort(entity, severity, props, k + 1,
         validate_property(entity, severity, props[k], acc))

\* for p_code in applicable_properties: try ... except ...
RECURSIVE validate_properties(_, _, _, _, _)
validate_properties(entity, severity, props, k, acc) ==
  IF k > Len(props) THEN acc
  ELSE validate_properties(entity, severity, props, k + 1,
         validate_property(entity, severity, props[k], acc))

\* DOMAIN.get(entity.class_code, [])
applicable_properties(entity) ==
  IF entity.class_code \in DOMAIN DomainIndex
  THEN DomainIndex[entity.class_code] ELSE <<>>

\* The result of a call: its return value, what it produced besides, and
\* the properties it handed to enforce_quantifier.
Result(ret, out, checked) == [ret |-> ret, out |-> out, checked |-> checked]

\* return messages
return_messages(done) ==
  Result(done.messages, Out(NoExc, done.log, done.warned), done.checked)

validate_entity_quantifiers(entity, severity) ==
  return_messages(validate_properties(entity, severity,
                    applicable_properties(entity), 1,
                    Loop(<<>>, <<>>, <<>>, <<>>)))

(***************************************************************************)
(* validate_batch_quantifiers, get_quantifier_summary                      *)
(***************************************************************************)
\* Mutant of DictSet: results.setdefault(key, messages), which keeps the
\* messages already stored under the key.
DictSetDefault(results, key, messages) ==
  [x \in (DOMAIN results) \cup {key} |->
     IF x \in DOMAIN results THEN results[x] ELSE messages]

\* results[key] = messages on a dict
DictSet(results, key, messages) ==
  [x \in (DOMAIN results) \cup {key} |-> IF x = key THEN messages ELSE results[x]]

EmptyDict == [x \in {} |-> <<>>]

\* Mutant of has_messages: every entity gets a key.
has_messages_always(messages) == TRUE

\* if messages:
has_messages(messages) == Len(messages) > 0

\* if messages: results[entity.id] = messages, with r the result of
\* validate_entity_quantifiers for the entity.
keep_messages(acc, id, r) ==
  Result(IF has_messages(r.ret) THEN DictSet(acc.ret, id, r.ret) ELSE acc.ret,
         Then(acc.out, r.out), acc.checked \o r.checked)

RECURSIVE validate_batch_loop(_, _, _, _)
validate_batch_loop(batch, severity, k, acc) ==
  IF k > Len(batch) THEN acc
  ELSE validate_batch_loop(batch, severity, k + 1,
         keep_messages(acc, batch[k].id,
                       validate_entity_quantifiers(batch[k], severity)))

validate_batch_quantifiers(batch, severity) ==
  validate_batch_loop(batch, severity, 1, Result(EmptyDict, Quiet, <<>>))

\* sum(len(messages) for messages in validation_results.values())
RECURSIVE SumLen(_, _)
SumLen(results, keys) ==
  IF keys = {} THEN 0
  ELSE Len(results[CHOOSE y \in keys : TRUE])
       + SumLen(results, keys \ {CHOOSE y \in keys : TRUE})

\* The summary dictionary, with r the result of validate_batch_quantifiers.
summary(total_entities, r) ==
  Result([total_entities |-> total_entities,
          entities_with_issues |-> Cardinality(DOMAIN r.ret),
          total_issues |-> SumLen(r.ret, DOMAIN r.ret),
          validation_results |-> r.ret], r.out, r.checked)

get_quantifier_summary(batch) ==
  summary(Len(batch), validate_batch_quantifiers(batch, WARN))

(***************************************************************************)
(* Threads.  A thread runs validate_batch_quantifiers over a slice of the  *)
(* caller's list.  The locals of its two frames are its own: results and   *)
(* the loop position of validate_batch_quantifiers, messages and the loop  *)
(* position of validate_entity_quantifiers.  P, DOMAIN and the entities    *)
(* are shared, and a thread reads them when the statement that reads them  *)
(* runs.  A step of a thread is one iteration of the property loop, or the *)
(* statements between two property loops.                                  *)
(***************************************************************************)
\* The frames of a thread: w is the call it was started with, k the
\* position of the batch loop, props and j the applicable properties and the
\* position of the property loop, acc the messages, results the dictionary.
Thread(w, k, j, props, acc, results, pc) ==
  [lo |-> w.lo, hi |-> w.hi, severity |-> w.severity, k |-> k, j |-> j,
   props |-> props, acc |-> acc, results |-> results, pc |-> pc]

\* threading.Thread(target=validate_batch_quantifiers, args=...).start():
\* results = {} and the batch loop at its first entity.
thread_start(w) ==
  Thread(w, w.lo, 1, <<>>, Loop(<<>>, <<>>, <<>>, <<>>),
         Result(EmptyDict, Quiet, <<>>), "for entity")

\* for entity in entities: the call of validate_entity_quantifiers up to its
\* property loop (messages = [], DOMAIN.get), or return results.
next_entity(th) ==
  IF th.k > th.hi THEN [th EXCEPT !.pc = "return"]
  ELSE [th EXCEPT !.props = applicable_properties(entities[th.k]),
                  !.j = 1,
                  !.acc = Loop(<<>>, <<>>, <<>>, <<>>),
                  !.pc = "for p_code"]

\* for p_code in applicable_properties: one iteration, or after the last
\* one return messages and if messages: results[entity.id] = messages.
next_property(th) ==
  IF th.j > Len(th.props)
  THEN [th EXCEPT !.results = keep_messages(th.results, entities[th.k].id,
                                            return_messages(th.acc)),
                  !.k = th.k + 1,
                  !.pc = "for entity"]
  ELSE [th EXCEPT !.acc = validate_property(entities[th.k], th.severity,
                                            th.props[th.j], th.acc),
                  !.j = th.j + 1]

\* The next statements of one thread.
statements(th) ==
  IF th.pc = "for entity" THEN next_entity(th) ELSE next_property(th)

\* With one messages list for all threads, the list that thread t leaves is
\* the list of every thread.
shared_messages(threads, t, stepped) ==
  [u \in DOMAIN threads |->
     IF u = t THEN stepped ELSE [threads[u] EXCEPT !.acc = stepped.acc]]

\* Mutant of thread_step: messages is a module-level list, one for all
\* threads, instead of a local of each call.
thread_step_shared_messages(threads, t) ==
  shared_messages(threads, t, statements(threads[t]))

\* Thread t runs its next statements; the frames of the others stay.
thread_step(threads, t) ==
  [threads EXCEPT ![t] = statements(threads[t])]

(***************************************************************************)
(* codegen/generate_models.py.  A label is a sequence of one-character     *)
(* strings; the names the generator builds are strings.                    *)
(***************************************************************************)
\* A specs directory: the shipped one, codegen/specs, or one holding a
\* crm_classes.yaml a user authored (its records are in the field authored).
SpecsDir(path, authored) == [path |-> path, authored |-> authored]

ShippedSpecs == SpecsDir("codegen/specs", <<>>)

\* yaml.safe_load of crm_classes.yaml in specs_dir.  The properties and the
\* aliases are loaded too; the generator does not read them.
load_yaml_specs(dir) ==
  [classes |-> IF dir = ShippedSpecs THEN ShippedClasses ELSE dir.authored]

RECURSIVE replace(_, _)
\* s.replace(old, ''): s without the occurrences of the character old
replace(s, old) ==
  IF s = <<>> THEN <<>>
  ELSE (IF s[1] = old THEN <<>> ELSE <<s[1]>>) \o replace(Tail(s), old)

RECURSIVE Join(_)
\* The str made of the characters of s.
Join(s) == IF s = <<>> THEN "" ELSE s[1] \o Join(Tail(s))

\* label.replace(' ', '').replace('-', '')
stripped(label) == Join(replace(replace(label, " "), "-"))

\* Mutant of class_name: the code and the label are not separated.
class_name_unseparated(code, label) == "E" \o code \o stripped(label)

\* class_name = f"E{code}_{label.replace(' ', '').replace('-', '')}"
class_name(code, label) == "E" \o code \o "_" \o stripped(label)

\* parent_class: named after the first parent code and the label of the
\* class being generated, or CRMEntity for a class without parents.
parent_class(parents, label) ==
  IF parents # <<>> THEN "E" \o parents[1] \o "_" \o stripped(label)
  ELSE "CRMEntity"

\* One line "alias_field: Optional[str] = None" per shortcut.
shortcut_fields(shortcuts) ==
  [k \in 1..Len(shortcuts) |-> shortcuts[k].alias_field]

\* The class definition emitted for class_spec: the class statement with its
\* base, the docstring, class_code, the shortcut fields and the Config.
generate_class_model(class_spec) ==
  [class_name |-> class_name(class_spec.code, class_spec.label),
   parent_class |-> parent_class(class_spec.parents, class_spec.label),
   docstring |-> [code |-> class_spec.code, label |-> class_spec.label,
                  abstract |-> class_spec.abstract],
   class_code |-> class_spec.code,
   shortcut_fields |-> shortcut_fields(class_spec.shortcuts),
   description |-> class_spec.label,
   canonical_fields |-> class_spec.canonical_fields]

\* The class definitions written to the output file, in file order.
generate_models_file(specs_classes) ==
  [k \in 1..Len(specs_classes) |-> generate_class_model(specs_classes[k])]

(***************************************************************************)
(* validators/typing_rules.py.  The tests import it and the specification  *)
(* describes it (sections 4.1 and 4.4), but it is not among the source     *)
(* files: it is modelled from the specification.  Violations are handled   *)
(* as the quantifier validator handles them.                               *)
(***************************************************************************)
\* getClass(code): the indices of the records of the class in the registry
class_records(registry, class_code) ==
  {k \in 1..Len(registry) : registry[k].code = class_code}

\* The parent codes of the class: none for a class the registry does not
\* hold, and none for the top class.
parents_of(registry, class_code) ==
  IF class_records(registry, class_code) = {} THEN <<>>
  ELSE registry[CHOOSE k \in class_records(registry, class_code) :
                  \A j \in class_records(registry, class_code) : k <= j].parents

RECURSIVE ancestors_from(_, _, _)
\* The class itself followed by each parent up to the root; fuel stops the
\* walk on a registry whose parents form a cycle.
ancestors_from(registry, class_code, fuel) ==
  <<class_code>> \o
    (IF fuel = 0 \/ parents_of(registry, class_code) = <<>> THEN <<>>
     ELSE ancestors_from(registry, parents_of(registry, class_code)[1], fuel - 1))

ancestorsOf(registry, class_code) ==
  ancestors_from(registry, class_code, Len(registry))

\* Mutant of is_compatible: only the declared class itself is compatible.
is_compatible_exact(ancestors, declared) == ancestors[1] = declared

\* A class is compatible with a declared class when the declared class is
\* among its ancestors.
is_compatible(ancestors, declared) ==
  \E k \in 1..Len(ancestors) : ancestors[k] = declared

\* Mutant of unknown_relation_property: as in the quantifier validator, an
\* unknown code is logged and the call returns.
unknown_relation_property_logged(p_code, severity, source) ==
  Out(NoExc, <<LogRec("warning", Msg("Unknown property code", p_code, 0, 0,
                                     "-", "-", "-"))>>, <<>>)

\* Step 1: an unknown property code is a violation.
unknown_relation_property(p_code, severity, source) ==
  handle_violation(Msg("Unknown property", p_code, 0, 0, "-", "-", "-"),
                   severity, source, p_code)

\* Steps 2 and 3 for one end of the relation: entity is the source with the
\* declared domain, or the target with the declared range.
check_end(text, ancestors, declared, entity, p_code, severity) ==
  IF is_compatible(ancestors, declared) THEN Quiet
  ELSE handle_violation(Msg(text, p_code, 0, 0, "-", "-", declared),
                        severity, entity, p_code)

validate_domain_range_alignment(registry, source, target, p_code, severity) ==
  IF severity = IGNORE THEN Quiet
  ELSE IF p_code \notin DOMAIN P
  THEN unknown_relation_property(p_code, severity, source)
  ELSE Then(check_end("source class not compatible with domain",
                      ancestorsOf(registry, source.class_code),
                      P[p_code].domain, source, p_code, severity),
            check_end("target class not compatible with range",
                      ancestorsOf(registry, target.class_code),
                      P[p_code].range, target, p_code, severity))

\* The properties whose shortcut field holds the ids of the targets of a
\* relation (the shortcuts of the class records).
ShortcutProperties == <<"P4", "P7", "P53", "P108", "P79", "P80">>

Relation(source_id, property_code, target_id) ==
  [source_id |-> source_id, property_code |-> property_code,
   target_id |-> target_id]

\* The relations a shortcut field of the entity stands for.
shortcut_relations(entity, p_code, values) ==
  [n \in 1..Len(values) |-> Relation(entity.id, p_code, values[n])]

RECURSIVE expandShortcutsToRelations(_, _)
\* The relations of the shortcut fields of the entity, from the k-th
\* shortcut property on.
expandShortcutsToRelations(entity, k) ==
  IF k > Len(ShortcutProperties) THEN <<>>
  ELSE shortcut_relations(entity, ShortcutProperties[k],
                          get_property_values(entity, ShortcutProperties[k]))
       \o expandShortcutsToRelations(entity, k + 1)

RECURSIVE batch_relations(_, _)
batch_relations(batch, k) ==
  IF k > Len(batch) THEN <<>>
  ELSE expandShortcutsToRelations(batch[k], 1) \o batch_relations(batch, k + 1)

\* Mutant of resolve: every id resolves to the first entity of the batch.
resolve_first(batch, id) == {1}

\* The entity of the batch with the id: the index of the last one, as a
\* lookup table built from the batch holds it; empty when there is none.
resolve(batch, id) ==
  {k \in 1..Len(batch) :
     batch[k].id = id /\ \A j \in 1..Len(batch) : batch[j].id = id => j <= k}

\* The check of a relation whose ends are the entities source and target.
\* The specification does not say what happens to a relation whose target
\* is not in the batch: dangling is "skip" or "violation".
check_relation(registry, batch, relation, sources, targets, severity, dangling) ==
  IF targets # {}
  THEN validate_domain_range_alignment(registry,
         batch[CHOOSE k \in sources : TRUE], batch[CHOOSE k \in targets : TRUE],
         relation.property_code, severity)
  ELSE IF dangling = "violation"
  THEN handle_violation(Msg("target not found", relation.property_code, 0, 0,
                            "-", "-", relation.target_id),
                        severity, batch[CHOOSE k \in sources : TRUE],
                        relation.property_code)
  ELSE Quiet

RECURSIVE check_relations(_, _, _, _, _, _, _)
check_relations(registry, batch, relations, k, severity, dangling, acc) ==
  IF k > Len(relations) \/ acc.raised # NoExc THEN acc
  ELSE check_relations(registry, batch, relations, k + 1, severity, dangling,
         Then(acc, check_relation(registry, batch, relations[k],
                     resolve(batch, relations[k].source_id),
                     resolve(batch, relations[k].target_id),
                     severity, dangling)))

\* The report: the violations found, and ok when there are none.
typing_report(out) ==
  Result(IF out.raised # NoExc THEN "None"
         ELSE [ok |-> Len(out.log) = 0,
               violations |-> [k \in 1..Len(out.log) |-> out.log[k].msg]],
         out, <<>>)

validate_batch_typing(registry, batch, severity, dangling) ==
  typing_report(check_relations(registry, batch, batch_relations(batch, 1), 1,
                                severity, dangling, Quiet))

(***************************************************************************)
(* The inputs: the registries a process may have loaded, the entity lists  *)
(* a caller may hold, the arguments of a call.                             *)
(***************************************************************************)
\* properties.py is generated from the YAML schema.  A re-authored schema
\* gives the properties in ReAuthored another quantifier string.
ReAuthored == {"P108", "P79"}

QuantStrings ==
  { <<"0", ".", ".", "1">>, <<"1", ".", ".", "2">>, <<"1", ".", ".", "*">>,
    <<"1">>, <<"0", ".", ".", "a">>, <<"0", ".", ".", ".", ".", "1">> }

Requantified(q) ==
  [p \in DOMAIN ShippedP |->
     IF p \in ReAuthored THEN [ShippedP[p] EXCEPT !.quantifier = q]
     ELSE ShippedP[p]]

Registries == {Requantified(q) : q \in QuantStrings}

\* str(n) for n >= 0
RECURSIVE IntToChars(_)
IntToChars(n) ==
  IF n < 10 THEN <<Digits[n + 1]>>
  ELSE IntToChars(n \div 10) \o <<Digits[(n % 10) + 1]>>

\* f"{min_part}..{max_part}"
QuantifierText(min_part, max_part) == min_part \o <<".", ".">> \o max_part

\* The bounds a caller may write: the numbers up to MaxNumber, "*", and
\* texts that are not numbers.
BoundTexts ==
  {IntToChars(n) : n \in 0..MaxNumber}
  \cup { <<"*">>, <<>>, <<"a">>, <<"1", "a">>, <<"0", "1">>, <<"-", "1">>,
         <<".", "1">>, <<"1", ".", ".", "2">> }

\* The strings a caller may pass to _parse_quantifier: two bounds around
\* "..", or a text without "..".
QuantifierTexts ==
  {QuantifierText(a, b) : a \in BoundTexts, b \in BoundTexts}
  \cup (BoundTexts \ {<<"1", ".", ".", "2">>})
  \cup { <<"0", ".", "1">>, <<"0", "-", "1">> }

EntityId == <<"e1", "e2", "e3", "e4">>
TargetId == <<"t1", "t2", "t3", "t4">>

\* An explicit value list, or a list assigned to a shortcut attribute.
ValueLists == {SubSeq(TargetId, 1, n) : n \in 0..MaxValues}

\* A shortcut attribute holds None, one id, or (assigned after
\* construction, which pydantic does not validate) a list of ids.
ShortcutValues == {AttrNone, Scalar(TargetId[1]), ListOf(SubSeq(TargetId, 1, MaxValues))}

\* The time-spans of the lists have both bounds set: one id, or a list.
BoundValues == ShortcutValues \ {AttrNone}

\* "E99" is a class code the registry does not know.
PlainClassCodes == {"E1", "E22", "E99"}

EntityForms(id) ==
  {CRMEntity(id, c) : c \in PlainClassCodes}
  \cup {E22_HumanMadeObject(id, "E22", AttrNone, v) : v \in ShortcutValues}
  \cup {E52_TimeSpan(id, "E52", b, e) : b \in BoundValues, e \in BoundValues}

AllForms == UNION {EntityForms(EntityId[i]) : i \in 1..MaxEntities}

\* The caller's lists: up to MaxEntities entities, the i-th with id EntityId[i].
Batches ==
  UNION {{b \in [1..n -> AllForms] : \A i \in 1..n : b[i].id = EntityId[i]}
         : n \in 0..MaxEntities}

PCodes == {"P108", "P999"}

\* What a caller of _parse_quantifier gets: the pair, or the exception.
parse_result(parsed) ==
  Result(IF parsed.raised # NoExc THEN "None"
         ELSE [min_count |-> parsed.min_count, bounded |-> parsed.bounded,
               max_count |-> parsed.max_count],
         Out(parsed.raised, <<>>, <<>>), <<>>)

\* A schema a user authored: the shipped classes E1 to E22 and two classes
\* of the user's, E100 under E12 and E101 under E22.
AuthoredClass(code, label, parent) ==
  [code |-> code, label |-> label, abstract |-> FALSE, parents |-> <<parent>>,
   canonical_fields |-> <<"label", "type", "notes">>, shortcuts |-> <<>>]

AuthoredSpecs ==
  SpecsDir("authored",
           SubSeq(ShippedClasses, 1, 22)
           \o <<AuthoredClass("E100", <<"C", "a", "s", "t", "i", "n", "g">>, "E12"),
                AuthoredClass("E101", <<"R", "e", "p", "l", "i", "c", "a">>, "E22")>>)

\* The class records a user may author: a code of the CRM form, a label
\* with spaces, hyphens and other characters, and no parent or E1.
AuthoredCodes == {"E1", "E12"}

AuthoredLabels == { <<"x">>, <<"2", " ", "x">>, <<"_", "-", "x">> }

ClassRecords ==
  {[code |-> c, label |-> l, abstract |-> FALSE, parents |-> p,
    canonical_fields |-> <<"label", "type", "notes">>, shortcuts |-> <<>>] :
     c \in AuthoredCodes, l \in AuthoredLabels, p \in {<<>>, <<"E1">>}}

\* crm_classes.yaml as authored: up to MaxClasses records in any order.
ClassLists == UNION {[1..n -> ClassRecords] : n \in 0..MaxClasses}

\* The batches of the relation checks: a source that may name the second
\* entity ("e2") or an entity outside the batch as what produced it, and a
\* second entity of one of several classes.
RelationSources ==
  {E22_HumanMadeObject(EntityId[1], c, AttrNone, v) :
     c \in {"E22", "E101", "E21"},
     v \in {AttrNone, Scalar(EntityId[2]), Scalar(TargetId[1])}}

RelationTargets ==
  {CRMEntity(EntityId[2], c) : c \in {"E12", "E100", "E22", "E7", "E99"}}

RelationBatches == {<<s, t>> : s \in RelationSources, t \in RelationTargets}

Dangling == {"skip", "violation"}

\* A call validate_batch_quantifiers(entities[lo:hi], severity) that the
\* caller gives to a thread.
Worker(lo, hi, severity) == [lo |-> lo, hi |-> hi, severity |-> severity]

\* The caller runs one thread, over the first entity of its list.
OneWorker(batch) ==
  <<Worker(1, IF Len(batch) = 0 THEN 0 ELSE 1, RAISE)>>

\* The caller runs two threads, the first over a head of its list and the
\* second over a tail: the slices are disjoint, or they overlap.
WorkerPairs(batch) ==
  {<<Worker(1, a, s1), Worker(b, Len(batch), s2)>> :
     a \in 1..Len(batch), b \in 1..Len(batch),
     s1 \in ValidationSeverity, s2 \in ValidationSeverity}

\* The entities of the lists given to threads: one of an unknown class, an
\* object with two producers, a time-span with two begin bounds.
ThreadForms(id) ==
  {CRMEntity(id, "E99"),
   E22_HumanMadeObject(id, "E22", AttrNone, ListOf(SubSeq(TargetId, 1, MaxValues))),
   E52_TimeSpan(id, "E52", ListOf(SubSeq(TargetId, 1, MaxValues)),
                Scalar(TargetId[1]))}

ThreadBatches ==
  UNION {{b \in [1..n -> UNION {ThreadForms(EntityId[i]) : i \in 1..n}] :
            \A i \in 1..n : b[i].id = EntityId[i]}
         : n \in 1..MaxEntities}

\* The entities of lists whose ids may repeat: one of an unknown class, an
\* object with two producers, a time-span with two of each bound.
SharedIdForms(id) ==
  {CRMEntity(id, "E99"),
   E22_HumanMadeObject(id, "E22", AttrNone, ListOf(SubSeq(TargetId, 1, MaxValues))),
   E52_TimeSpan(id, "E52", ListOf(SubSeq(TargetId, 1, MaxValues)),
                ListOf(SubSeq(TargetId, 1, MaxValues)))}

\* The caller's lists when nothing keeps the ids apart: each entity has any
\* of the ids.
SharedIdBatches ==
  UNION {[1..n -> UNION {SharedIdForms(EntityId[i]) : i \in 1..MaxEntities}]
         : n \in 1..MaxEntities}

NoCall == [op |-> "none"]
NoResult == Result("None", Quiet, <<>>)

(***************************************************************************)
(* The state machine.                                                      *)
(***************************************************************************)
\* The process has loaded the shipped registry.
Init ==
  /\ P = imported_P
  /\ DomainIndex = ShippedDOMAIN
  /\ RangeIndex = ShippedRANGE
  /\ specs_dir = ShippedSpecs
  /\ quantifier_arg = ShippedP["P108"].quantifier
  /\ entities \in Batches
  /\ warnfilter \in {"default", "error"}
  /\ workers = OneWorker(entities)
  /\ call = NoCall
  /\ outcome = NoResult

\* The process has loaded a registry generated from a re-authored schema,
\* and the caller holds one entity.
InitSchema ==
  /\ P \in Registries
  /\ DomainIndex = ShippedDOMAIN
  /\ RangeIndex = ShippedRANGE
  /\ specs_dir = ShippedSpecs
  /\ quantifier_arg = ShippedP["P108"].quantifier
  /\ entities \in {b \in Batches : Len(b) = 1}
  /\ warnfilter \in {"default", "error"}
  /\ workers = OneWorker(entities)
  /\ call = NoCall
  /\ outcome = NoResult

\* The caller holds a quantifier string of its own; the rest is as shipped.
InitParse ==
  /\ P = imported_P
  /\ DomainIndex = ShippedDOMAIN
  /\ RangeIndex = ShippedRANGE
  /\ specs_dir = ShippedSpecs
  /\ quantifier_arg \in QuantifierTexts
  /\ entities = <<E22_HumanMadeObject(EntityId[1], "E22", AttrNone, AttrNone)>>
  /\ warnfilter = "default"
  /\ workers = OneWorker(entities)
  /\ call = NoCall
  /\ outcome = NoResult

EnforceQuantifier(i, p_code, values, severity) ==
  /\ call = NoCall
  /\ i \in 1..Len(entities)
  /\ call' = [op |-> "enforce_quantifier", entity |-> i, p_code |-> p_code,
              values |-> values, severity |-> severity]
  /\ outcome' = Result("None",
                  enforce_quantifier(entities[i], p_code, values, severity), <<>>)
  /\ UNCHANGED <<P, DomainIndex, RangeIndex, specs_dir, quantifier_arg, entities,
               warnfilter, workers>>

\* Mutant of ValidateEntityQuantifiers: the values read from a shortcut
\* attribute are written back to the entity in list form.
ValidateEntityQuantifiersNormalising(i, severity) ==
  /\ call = NoCall
  /\ i \in 1..Len(entities)
  /\ call' = [op |-> "validate_entity_quantifiers", entity |-> i,
              severity |-> severity]
  /\ outcome' = validate_entity_quantifiers(entities[i], severity)
  /\ entities' = [entities EXCEPT ![i].attrs =
                    [f \in DOMAIN @ |-> IF @[f].form = "scalar"
                                        THEN ListOf(@[f].items) ELSE @[f]]]
  /\ UNCHANGED <<P, DomainIndex, RangeIndex, specs_dir, quantifier_arg, warnfilter, workers>>

ValidateEntityQuantifiers(i, severity) ==
  /\ call = NoCall
  /\ i \in 1..Len(entities)
  /\ call' = [op |-> "validate_entity_quantifiers", entity |-> i,
              severity |-> severity]
  /\ outcome' = validate_entity_quantifiers(entities[i], severity)
  /\ UNCHANGED <<P, DomainIndex, RangeIndex, specs_dir, quantifier_arg, entities,
               warnfilter, workers>>

ValidateBatchQuantifiers(severity) ==
  /\ call = NoCall
  /\ call' = [op |-> "validate_batch_quantifiers", severity |-> severity]
  /\ outcome' = validate_batch_quantifiers(entities, severity)
  /\ UNCHANGED <<P, DomainIndex, RangeIndex, specs_dir, quantifier_arg, entities,
               warnfilter, workers>>

GetQuantifierSummary ==
  /\ call = NoCall
  /\ call' = [op |-> "get_quantifier_summary"]
  /\ outcome' = get_quantifier_summary(entities)
  /\ UNCHANGED <<P, DomainIndex, RangeIndex, specs_dir, quantifier_arg, entities,
               warnfilter, workers>>

\* The generator is pointed at a specs directory a user authored.
InitGenerator ==
  /\ P = imported_P
  /\ DomainIndex = ShippedDOMAIN
  /\ RangeIndex = ShippedRANGE
  /\ specs_dir \in {SpecsDir("authored", l) : l \in ClassLists}
  /\ quantifier_arg = ShippedP["P108"].quantifier
  /\ entities = <<E22_HumanMadeObject(EntityId[1], "E22", AttrNone, AttrNone)>>
  /\ warnfilter = "default"
  /\ workers = OneWorker(entities)
  /\ call = NoCall
  /\ outcome = NoResult

\* The process has loaded the shipped registry; the class hierarchy is the
\* shipped one or the authored one, and the caller holds a source and a
\* target.
InitTyping ==
  /\ P = imported_P
  /\ DomainIndex = ShippedDOMAIN
  /\ RangeIndex = ShippedRANGE
  /\ specs_dir \in {ShippedSpecs, AuthoredSpecs}
  /\ quantifier_arg = ShippedP["P108"].quantifier
  /\ entities \in RelationBatches
  /\ warnfilter \in {"default", "error"}
  /\ workers = OneWorker(entities)
  /\ call = NoCall
  /\ outcome = NoResult

ValidateDomainRangeAlignment(i, j, p_code, severity) ==
  /\ call = NoCall
  /\ i \in 1..Len(entities)
  /\ j \in 1..Len(entities)
  /\ call' = [op |-> "validate_domain_range_alignment", source |-> i,
              target |-> j, p_code |-> p_code, severity |-> severity]
  /\ outcome' = Result("None",
                  validate_domain_range_alignment(
                    load_yaml_specs(specs_dir).classes, entities[i],
                    entities[j], p_code, severity), <<>>)
  /\ UNCHANGED <<P, DomainIndex, RangeIndex, specs_dir, quantifier_arg, entities,
                 warnfilter, workers>>

ValidateBatchTyping(severity, dangling) ==
  /\ call = NoCall
  /\ call' = [op |-> "validate_batch_typing", severity |-> severity,
              dangling |-> dangling]
  /\ outcome' = validate_batch_typing(load_yaml_specs(specs_dir).classes,
                                      entities, severity, dangling)
  /\ UNCHANGED <<P, DomainIndex, RangeIndex, specs_dir, quantifier_arg, entities,
                 warnfilter, workers>>

\* _parse_quantifier is applied to the string the caller holds.
ParseQuantifier ==
  /\ call = NoCall
  /\ call' = [op |-> "_parse_quantifier"]
  /\ outcome' = parse_result(parse_quantifier(quantifier_arg))
  /\ UNCHANGED <<P, DomainIndex, RangeIndex, specs_dir, quantifier_arg, entities,
                 warnfilter, workers>>

\* main(): the specifications are loaded and the models file is generated.
GenerateModelsFile ==
  /\ call = NoCall
  /\ call' = [op |-> "generate_models_file"]
  /\ outcome' = Result(generate_models_file(load_yaml_specs(specs_dir).classes),
                       Quiet, <<>>)
  /\ UNCHANGED <<P, DomainIndex, RangeIndex, specs_dir, quantifier_arg, entities,
               warnfilter, workers>>

\* The caller holds a list in which ids may repeat.
InitSharedIds ==
  /\ P = imported_P
  /\ DomainIndex = ShippedDOMAIN
  /\ RangeIndex = ShippedRANGE
  /\ specs_dir = ShippedSpecs
  /\ quantifier_arg = ShippedP["P108"].quantifier
  /\ entities \in SharedIdBatches
  /\ warnfilter \in {"default", "error"}
  /\ workers = OneWorker(entities)
  /\ call = NoCall
  /\ outcome = NoResult

\* The caller runs two threads over slices of its list.
InitThreads ==
  /\ P = imported_P
  /\ DomainIndex = ShippedDOMAIN
  /\ RangeIndex = ShippedRANGE
  /\ specs_dir = ShippedSpecs
  /\ quantifier_arg = ShippedP["P108"].quantifier
  /\ entities \in ThreadBatches
  /\ warnfilter \in {"default", "error"}
  /\ workers \in WorkerPairs(entities)
  /\ call = NoCall
  /\ outcome = NoResult

\* The caller starts its threads.
StartThreads ==
  /\ call = NoCall
  /\ call' = [op |-> "threads"]
  /\ outcome' = Result([t \in DOMAIN workers |-> thread_start(workers[t])],
                       Quiet, <<>>)
  /\ UNCHANGED <<P, DomainIndex, RangeIndex, specs_dir, quantifier_arg, entities,
               warnfilter, workers>>

\* The scheduler runs thread t, which has not returned yet.
ThreadStep(t) ==
  /\ call.op = "threads"
  /\ t \in DOMAIN outcome.ret
  /\ outcome.ret[t].pc # "return"
  /\ outcome' = Result(thread_step(outcome.ret, t), Quiet, <<>>)
  /\ UNCHANGED <<P, DomainIndex, RangeIndex, specs_dir, quantifier_arg, entities,
               warnfilter, workers, call>>

\* The caller has joined its threads.
Joined ==
  call.op = "threads" => \A t \in DOMAIN outcome.ret : outcome.ret[t].pc = "return"

\* The caller has read the result of its call and makes the next one.
Return ==
  /\ call # NoCall
  /\ Joined
  /\ call' = NoCall
  /\ outcome' = NoResult
  /\ UNCHANGED <<P, DomainIndex, RangeIndex, specs_dir, quantifier_arg, entities,
               warnfilter, workers>>

Next ==
  \/ \E i \in 1..MaxEntities, p_code \in PCodes, values \in ValueLists,
        severity \in ValidationSeverity :
       EnforceQuantifier(i, p_code, values, severity)
  \/ \E i \in 1..MaxEntities, severity \in ValidationSeverity :
       ValidateEntityQuantifiers(i, severity)
  \/ \E severity \in ValidationSeverity : ValidateBatchQuantifiers(severity)
  \/ GetQuantifierSummary
  \/ \E i \in 1..MaxEntities, j \in 1..MaxEntities, p_code \in PCodes,
        severity \in ValidationSeverity :
       ValidateDomainRangeAlignment(i, j, p_code, severity)
  \/ \E severity \in ValidationSeverity, dangling \in Dangling :
       ValidateBatchTyping(severity, dangling)
  \/ ParseQuantifier
  \/ GenerateModelsFile
  \/ StartThreads
  \/ \E t \in 1..2 : ThreadStep(t)
  \/ Return

Spec == Init /\ [][Next]_vars

SpecSchema == InitSchema /\ [][Next]_vars

SpecParse == InitParse /\ [][Next]_vars

SpecTyping == InitTyping /\ [][Next]_vars

SpecGenerator == InitGenerator /\ [][Next]_vars

SpecThreads == InitThreads /\ [][Next]_vars

SpecSharedIds == InitSharedIds /\ [][Next]_vars

(***************************************************************************)
(* Properties.                                                             *)
(***************************************************************************)
IsEnforce == call.op = "enforce_quantifier"
IsValidateEntity == call.op = "validate_entity_quantifiers"
IsValidateBatch == call.op = "validate_batch_quantifiers"

\* The entity a call on one entity was given.
CallEntity == entities[call.entity]

Q01 == <<"0", ".", ".", "1">>

\* The call is enforce_quantifier on an entity of the domain class of a
\* known property whose quantifier parses.
EnforceApplies ==
  /\ IsEnforce
  /\ call.p_code \in DOMAIN P
  /\ CallEntity.class_code = P[call.p_code].domain
  /\ parse_quantifier(P[call.p_code].quantifier).raised = NoExc

\* The value count of the call is outside (min, max).
CountOutside ==
  LET q == parse_quantifier(P[call.p_code].quantifier)
      n == Len(call.values) IN
  n < q.min_count \/ (q.bounded /\ n > q.max_count)

\* C1: under RAISE, enforce_quantifier on an entity of the property's domain
\* class raises CRMValidationError exactly when the value count is below min
\* or above a bounded max, and otherwise returns normally; with P108 "0..1"
\* on an E22 entity it returns for 0 and 1 values and raises for 2.
C1_RaiseIffOutside ==
  (EnforceApplies /\ call.severity = RAISE) =>
    /\ (outcome.out.raised.type = "CRMValidationError") <=> CountOutside
    /\ ~CountOutside => outcome.out.raised = NoExc
    /\ (call.p_code = "P108" /\ P["P108"].quantifier = Q01) =>
         /\ Len(call.values) \in {0, 1} => outcome.out.raised = NoExc
         /\ Len(call.values) = 2 =>
              outcome.out.raised.type = "CRMValidationError"

C1_Witness ==
  /\ EnforceApplies /\ call.severity = RAISE
  /\ call.p_code = "P108" /\ P["P108"].quantifier = Q01
  /\ CallEntity.class_code = "E22"
  /\ Len(call.values) = 2
  /\ outcome.out.raised.type = "CRMValidationError"

\* A case of C1 below min: "1..2" with no value raises.
C1_WitnessBelowMin ==
  /\ EnforceApplies /\ call.severity = RAISE
  /\ Len(call.values) = 0
  /\ parse_quantifier(P[call.p_code].quantifier).min_count = 1
  /\ outcome.out.raised.type = "CRMValidationError"

C3_IgnoreProducesNothing ==
  /\ (IsEnforce /\ call.severity = IGNORE) => outcome.out = Quiet
  /\ (IsValidateEntity /\ call.severity = IGNORE) =>
       outcome.ret = <<>> /\ outcome.out = Quiet
  /\ (IsValidateBatch /\ call.severity = IGNORE) =>
       outcome.ret = EmptyDict /\ outcome.out = Quiet

\* IGNORE on a batch that holds an entity with two ids in produced_by.
C3_Witness ==
  /\ IsValidateBatch /\ call.severity = IGNORE
  /\ \E i \in 1..Len(entities) :
       /\ entities[i].py = "E22_HumanMadeObject"
       /\ entities[i].attrs["produced_by"].form = "list"
  /\ outcome.ret = EmptyDict

\* IGNORE on enforce_quantifier with an unknown code, and with a count
\* that violates under the other severities.
C3_WitnessUnknown ==
  IsEnforce /\ call.severity = IGNORE /\ call.p_code \notin DOMAIN P

C3_WitnessTooMany ==
  /\ IsEnforce /\ call.severity = IGNORE /\ call.p_code = "P108"
  /\ CallEntity.class_code = "E22" /\ Len(call.values) = 2

\* C4: enforce_quantifier on an entity whose class_code is not the domain of
\* the (known) property never raises and emits no violation, for every value
\* count and severity: nothing is warned and the only log record, if any,
\* is the informational note of the mismatch.
C4_DomainMismatchSilent ==
  (IsEnforce /\ call.p_code \in DOMAIN P
     /\ CallEntity.class_code # P[call.p_code].domain) =>
    /\ outcome.out.raised = NoExc
    /\ outcome.out.warned = <<>>
    /\ \A k \in 1..Len(outcome.out.log) : outcome.out.log[k].level = "info"

\* A mismatched entity given more values than the quantifier allows, under RAISE.
C4_Witness ==
  /\ IsEnforce /\ call.p_code = "P108" /\ call.severity = RAISE
  /\ CallEntity.class_code = "E52"
  /\ Len(call.values) = 2
  /\ outcome.out.raised = NoExc

\* C5: enforce_quantifier with a property code that is not in the registry,
\* under WARN or RAISE, logs the miss once and returns normally: no
\* violation, no warning, no error.
C5_UnknownPropertyLogged ==
  (IsEnforce /\ call.p_code \notin DOMAIN P /\ call.severity # IGNORE) =>
    /\ outcome.out.raised = NoExc
    /\ outcome.out.warned = <<>>
    /\ Len(outcome.out.log) = 1
    /\ outcome.out.log[1].msg.text = "Unknown property code"
    /\ outcome.out.log[1].msg.p_code = call.p_code

C5_Witness ==
  /\ IsEnforce /\ call.p_code = "P999" /\ call.severity = RAISE
  /\ Len(call.values) = 2
  /\ Len(outcome.out.log) = 1

\* The properties of the registry whose domain is the entity's class and
\* whose quantifier the values held by the entity violate.
ViolatedProperties(entity) ==
  {p \in DOMAIN P :
     /\ P[p].domain = entity.class_code
     /\ LET q == parse_quantifier(P[p].quantifier)
            n == Len(get_property_values(entity, p)) IN
        /\ q.raised = NoExc
        /\ n < q.min_count \/ (q.bounded /\ n > q.max_count)}

Violating == {i \in 1..Len(entities) : ViolatedProperties(entities[i]) # {}}

\* C6 as stated: validate_batch_quantifiers under WARN returns an empty map
\* when every entity is clean, and when exactly one entity has violated
\* properties the map has exactly one key, that entity's id, with one
\* message per violated property.
C6_BatchWarnReport ==
  (IsValidateBatch /\ call.severity = WARN) =>
    /\ Violating = {} => outcome.ret = EmptyDict
    /\ \A i \in Violating :
         Violating = {i} =>
           /\ DOMAIN outcome.ret = {entities[i].id}
           /\ Len(outcome.ret[entities[i].id]) =
                Cardinality(ViolatedProperties(entities[i]))

\* C7: the map validate_batch_quantifiers returns holds only ids of entities
\* of the batch, every key maps to a non-empty message list, and an entity
\* with no message is not a key.
C7_BatchKeysNonEmpty ==
  IsValidateBatch =>
    /\ DOMAIN outcome.ret \subseteq {entities[i].id : i \in 1..Len(entities)}
    /\ \A key \in DOMAIN outcome.ret : Len(outcome.ret[key]) > 0
    /\ \A i \in 1..Len(entities) :
         validate_entity_quantifiers(entities[i], call.severity).ret = <<>>
           => entities[i].id \notin DOMAIN outcome.ret

\* A batch of a clean entity and a violating one, under RAISE.
C7_Witness ==
  /\ IsValidateBatch /\ call.severity = RAISE
  /\ Len(entities) = 2
  /\ Cardinality(DOMAIN outcome.ret) = 1

\* The positions in the Domain index entry of the entity's class whose check
\* raises under the severity.
RaisingChecks(entity, severity) ==
  LET props == IF entity.class_code \in DOMAIN DomainIndex
               THEN DomainIndex[entity.class_code] ELSE <<>> IN
  {k \in 1..Len(props) :
     enforce_quantifier(entity, props[k],
       get_property_values(entity, props[k]), severity).raised # NoExc}

\* C8: validate_entity_quantifiers returns without raising; it hands every
\* property of the Domain index entry of the entity's class, in order, to
\* enforce_quantifier, and its list holds one message for each property
\* whose check raised (a violation, a parse failure), in order.
C8_EntityNeverAborts ==
  IsValidateEntity =>
    LET props == IF CallEntity.class_code \in DOMAIN DomainIndex
                 THEN DomainIndex[CallEntity.class_code] ELSE <<>>
        raising == RaisingChecks(CallEntity, call.severity) IN
    /\ outcome.out.raised = NoExc
    /\ outcome.checked = props
    /\ Len(outcome.ret) = Cardinality(raising)
    /\ \A m \in 1..Len(outcome.ret) :
         \E k \in raising :
           /\ outcome.ret[m].p_code = props[k]
           /\ Cardinality({j \in raising : j < k}) = m - 1

\* An E52 entity with two ids in both shortcuts, P79's quantifier
\* unparseable: the parse failure becomes the first message and the
\* violation of P80 the second.
C8_Witness ==
  /\ IsValidateEntity /\ call.severity = RAISE
  /\ CallEntity.class_code = "E52"
  /\ parse_quantifier(P["P79"].quantifier).raised # NoExc
  /\ Len(outcome.ret) = 2
  /\ outcome.ret[1].text = "Error validating property"
  /\ outcome.ret[1].p_code = "P79"
  /\ outcome.ret[2].text = "allows at most"
  /\ outcome.ret[2].p_code = "P80"
  /\ outcome.checked = <<"P79", "P80", "P4i">>

\* C9 as stated: under RAISE a violation found by
\* validate_entity_quantifiers or validate_batch_quantifiers reaches the
\* caller as a raised CRMValidationError.
C9_RaiseSurfaces ==
  /\ (IsValidateEntity /\ call.severity = RAISE
        /\ ViolatedProperties(CallEntity) # {}) =>
       outcome.out.raised.type = "CRMValidationError"
  /\ (IsValidateBatch /\ call.severity = RAISE /\ Violating # {}) =>
       outcome.out.raised.type = "CRMValidationError"

\* The messages of an entity under RAISE: one per violated property, each
\* carrying the property code, the entity id and the class code.
RaiseMessages(entity, messages) ==
  /\ Len(messages) = Cardinality(ViolatedProperties(entity))
  /\ \A p \in ViolatedProperties(entity) :
       \E m \in 1..Len(messages) :
         /\ messages[m].p_code = p
         /\ messages[m].entity = entity.id
         /\ messages[m].cls = entity.class_code
         /\ messages[m].text \in {"requires at least", "allows at most"}

\* C9 amended: under RAISE validate_entity_quantifiers and
\* validate_batch_quantifiers return normally; the CRMValidationError of
\* each violated property is caught and returned as a message that carries
\* the property code, the entity id and the class code, in the entity's
\* list and under the entity's id in the batch's map.
C9_RaiseCollected ==
  /\ (IsValidateEntity /\ call.severity = RAISE) =>
       /\ outcome.out.raised = NoExc
       /\ RaiseMessages(CallEntity, outcome.ret)
  /\ (IsValidateBatch /\ call.severity = RAISE) =>
       /\ outcome.out.raised = NoExc
       /\ DOMAIN outcome.ret = {entities[i].id : i \in Violating}
       /\ \A i \in Violating :
            RaiseMessages(entities[i], outcome.ret[entities[i].id])

\* A batch under RAISE with an E52 entity that violates P79 and P80.
C9_Witness ==
  /\ IsValidateBatch /\ call.severity = RAISE
  /\ \E i \in Violating :
       /\ Cardinality(ViolatedProperties(entities[i])) = 2
       /\ Len(outcome.ret[entities[i].id]) = 2
  /\ outcome.out.raised = NoExc

\* C10: no step of a validator changes an entity, the caller's entity list
\* or the registry tables P, DOMAIN and RANGE.
C10_ReadOnly ==
  [][/\ entities' = entities
     /\ P' = P
     /\ DomainIndex' = DomainIndex
     /\ RangeIndex' = RangeIndex]_vars

\* A validator has run on an entity that holds a single id in a shortcut
\* and has produced messages.
C10_Witness ==
  /\ IsValidateEntity
  /\ CallEntity.py = "E52_TimeSpan"
  /\ CallEntity.attrs["begin_of_the_begin"].form = "scalar"
  /\ Len(outcome.ret) > 0

\* C11: every inverse named in the registry is itself a property of the
\* registry, and the inverse of the inverse is the property.
C11_InverseSymmetry ==
  \A p \in DOMAIN P :
    /\ P[p].inverse \in DOMAIN P
    /\ P[P[p].inverse].inverse = p

\* The loaded registry holds P108 and P108i, each naming the other, and a
\* validator has read it.
C11_Witness ==
  /\ call # NoCall
  /\ Cardinality(DOMAIN P) = 64
  /\ P["P108"].inverse = "P108i"
  /\ P["P108i"].inverse = "P108"

\* The quantifier of p parses to (min, max) with min >= 0 and, when max is
\* bounded, min <= max.
QuantifierWellFormed(parsed) ==
  /\ parsed.raised = NoExc
  /\ parsed.min_count >= 0
  /\ parsed.bounded => parsed.min_count <= parsed.max_count

\* C12: every quantifier string of the registry is accepted by
\* _parse_quantifier and yields min >= 0 and min <= max when max is bounded.
C12_QuantifiersParse ==
  \A p \in DOMAIN P : QuantifierWellFormed(parse_quantifier(P[p].quantifier))

\* The registry holds a bounded quantifier ("0..1", parsed to (0, 1)) and an
\* unbounded one ("0..*", parsed to (0, None)), and enforce_quantifier has
\* parsed the former.
C12_Witness ==
  /\ IsEnforce /\ call.p_code = "P108" /\ call.severity # IGNORE
  /\ CallEntity.class_code = "E22"
  /\ parse_quantifier(P["P108"].quantifier) = Parsed(NoExc, 0, TRUE, 1)
  /\ parse_quantifier(P["P1"].quantifier) = Parsed(NoExc, 0, FALSE, 0)

IsGenerate == call.op = "generate_models_file"

\* The class definitions of the generated file.
Emitted == outcome.ret

\* The names the generated file defines.
DefinedNames == {Emitted[k].class_name : k \in 1..Len(Emitted)}

\* The base of the definition of name in the generated file.
BaseOf(name) ==
  Emitted[CHOOSE k \in 1..Len(Emitted) : Emitted[k].class_name = name].parent_class

RECURSIVE ReachesRoot(_, _, _)
\* Following bases from name arrives at root within fuel definitions.
ReachesRoot(name, root, fuel) ==
  IF name = root THEN TRUE
  ELSE IF fuel = 0 \/ name \notin DefinedNames THEN FALSE
  ELSE ReachesRoot(BaseOf(name), root, fuel - 1)

\* C13: in the generated file every class other than E1 has a base that is
\* itself a class of the file, and following bases from any class arrives at
\* the class of E1 in finitely many steps (so no class is its own ancestor).
C13_ClassTree ==
  IsGenerate =>
    \A k \in 1..Len(Emitted) :
      /\ Emitted[k].class_code = "E1" => Emitted[k].parent_class = "CRMEntity"
      /\ Emitted[k].class_code # "E1" =>
           /\ Emitted[k].parent_class \in DefinedNames
           /\ \E r \in 1..Len(Emitted) :
                /\ Emitted[r].class_code = "E1"
                /\ ReachesRoot(Emitted[k].class_name, Emitted[r].class_name,
                               Len(Emitted))

\* C14: no two class records given to the generator, and no two class
\* definitions it emits, carry the same class code.
C14_ClassCodesUnique ==
  IsGenerate =>
    \A j, k \in 1..Len(Emitted) :
      j # k => /\ load_yaml_specs(specs_dir).classes[j].code
                 # load_yaml_specs(specs_dir).classes[k].code
               /\ Emitted[j].class_code # Emitted[k].class_code

IsParse == call.op = "_parse_quantifier"

\* The text before the first ".." of q, and the text after it.
MinPart(q) == SubSeq(q, 1, FindSep(q, 1) - 1)
MaxPart(q) == SubSeq(q, FindSep(q, 1) + 2, Len(q))

\* A bound that cannot be a number: empty, or holding a character that is
\* neither a digit nor a sign.
NonNumeric(s) ==
  s = <<>> \/ \E k \in 1..Len(s) : ~IsDigit(s[k]) /\ s[k] \notin {"+", "-"}

\* The pair written back as a quantifier string.
Serialize(pair) ==
  QuantifierText(IntToChars(pair.min_count),
                 IF pair.bounded THEN IntToChars(pair.max_count) ELSE <<"*">>)

ParsedPair(m, bounded, n) ==
  [min_count |-> m, bounded |-> bounded, max_count |-> n]

\* C15: "m..n" parses to (m, n) and "m..*" to (m, None) for non-negative
\* m, n; a parsed pair written back and parsed again is the same pair; a
\* string without ".." and a string with a non-numeric bound (other than
\* "*" as the upper bound) raise.
C15_ParseRoundTrip ==
  IsParse =>
    /\ \A m, n \in 0..MaxNumber :
         quantifier_arg = QuantifierText(IntToChars(m), IntToChars(n)) =>
           /\ outcome.out.raised = NoExc
           /\ outcome.ret = ParsedPair(m, TRUE, n)
    /\ \A m \in 0..MaxNumber :
         quantifier_arg = QuantifierText(IntToChars(m), <<"*">>) =>
           /\ outcome.out.raised = NoExc
           /\ outcome.ret = ParsedPair(m, FALSE, 0)
    /\ (/\ outcome.out.raised = NoExc
        /\ outcome.ret.min_count >= 0
        /\ outcome.ret.max_count >= 0) =>
           parse_result(parse_quantifier(Serialize(outcome.ret))) = outcome
    /\ FindSep(quantifier_arg, 1) = 0 =>
         outcome.out.raised.type = "ValueError"
    /\ (/\ FindSep(quantifier_arg, 1) # 0
        /\ \/ NonNumeric(MinPart(quantifier_arg))
           \/ /\ MaxPart(quantifier_arg) # <<"*">>
              /\ NonNumeric(MaxPart(quantifier_arg))) =>
         outcome.out.raised.type = "ValueError"

\* "10..11" has been parsed to (10, 11).
C15_Witness ==
  /\ IsParse
  /\ quantifier_arg = <<"1", "0", ".", ".", "1", "1">>
  /\ outcome.ret = ParsedPair(10, TRUE, 11)

\* Cases of C15 that raise: no "..", and a letter as the upper bound.
C15_WitnessNoSeparator ==
  /\ IsParse
  /\ quantifier_arg = <<"0", ".", "1">>
  /\ outcome.out.raised.type = "ValueError"

C15_WitnessNonNumeric ==
  /\ IsParse
  /\ quantifier_arg = <<"0", ".", ".", "a">>
  /\ outcome.out.raised.type = "ValueError"

IsAlignment == call.op = "validate_domain_range_alignment"
IsBatchTyping == call.op = "validate_batch_typing"

\* The class hierarchy the typing validator reads.
Hierarchy == load_yaml_specs(specs_dir).classes

\* The classes one parent step above the classes of S.
ParentsOfAll(S) ==
  {Hierarchy[k].parents[1] :
     k \in {n \in 1..Len(Hierarchy) :
              Hierarchy[n].code \in S /\ Hierarchy[n].parents # <<>>}}

RECURSIVE UpClosure(_, _)
UpClosure(S, n) ==
  IF n = 0 \/ ParentsOfAll(S) \subseteq S THEN S
  ELSE UpClosure(S \cup ParentsOfAll(S), n - 1)

\* declared is the class c or one of its ancestors.
IsA(c, declared) == declared \in UpClosure({c}, Len(Hierarchy))

AlignmentSource == entities[call.source]
AlignmentTarget == entities[call.target]

\* The ends of the call fit the declared domain and range of its property.
EndsCompatible ==
  /\ IsA(AlignmentSource.class_code, P[call.p_code].domain)
  /\ IsA(AlignmentTarget.class_code, P[call.p_code].range)

\* The P108 cases of C16: an E22 source under RAISE passes with a target of
\* class E12 or of a class under E12, and raises with a target of class E22.
P108Cases ==
  (/\ call.severity = RAISE /\ call.p_code = "P108"
   /\ AlignmentSource.class_code = "E22") =>
    /\ IsA(AlignmentTarget.class_code, "E12") => outcome.out = Quiet
    /\ AlignmentTarget.class_code = "E22" =>
         outcome.out.raised.type = "CRMValidationError"

\* C16 as stated: for every severity, validate_domain_range_alignment
\* reports no violation if and only if the declared domain is the source's
\* class or an ancestor of it and the declared range is the target's class
\* or an ancestor of it.
C16_AlignmentIffCompatibleAnySeverity ==
  (IsAlignment /\ call.p_code \in DOMAIN P) =>
    /\ (outcome.out = Quiet) <=> EndsCompatible
    /\ P108Cases

\* C16, amended: the equivalence holds under WARN and RAISE; under IGNORE
\* no violation is reported whatever the classes.
C16_AlignmentIffCompatible ==
  (IsAlignment /\ call.p_code \in DOMAIN P) =>
    /\ call.severity # IGNORE => ((outcome.out = Quiet) <=> EndsCompatible)
    /\ call.severity = IGNORE => outcome.out = Quiet
    /\ P108Cases

\* An E22 source and a target of class E100, a class under E12, have passed
\* the P108 check under RAISE.
C16_Witness ==
  /\ IsAlignment /\ call.severity = RAISE /\ call.p_code = "P108"
  /\ AlignmentSource.class_code = "E22"
  /\ AlignmentTarget.class_code = "E100"
  /\ specs_dir = AuthoredSpecs
  /\ outcome.out = Quiet

\* An E22 source and an E22 target have raised.
C16_WitnessRaises ==
  /\ IsAlignment /\ call.severity = RAISE /\ call.p_code = "P108"
  /\ AlignmentSource.class_code = "E22"
  /\ AlignmentTarget.class_code = "E22"
  /\ outcome.out.raised.type = "CRMValidationError"

\* C17: with a property code the registry does not hold,
\* validate_domain_range_alignment raises under RAISE and records a
\* violation under WARN, whatever the source and the target, while
\* enforce_quantifier returns without a violation.
C17_UnknownPropertyViolation ==
  /\ (IsAlignment /\ call.p_code \notin DOMAIN P) =>
       /\ call.severity = RAISE =>
            outcome.out.raised.type = "CRMValidationError"
       /\ call.severity = WARN =>
            /\ Len(outcome.out.log) = 1
            /\ outcome.out.log[1].msg.text = "Unknown property"
            /\ outcome.out.raised.type # "CRMValidationError"
  /\ (IsEnforce /\ call.p_code \notin DOMAIN P) =>
       /\ outcome.out.raised = NoExc
       /\ outcome.out.warned = <<>>

C17_Witness ==
  /\ IsAlignment /\ call.p_code = "P999" /\ call.severity = RAISE
  /\ AlignmentSource.class_code = "E22"
  /\ AlignmentTarget.class_code = "E12"
  /\ outcome.out.raised.type = "CRMValidationError"

C17_WitnessWarn ==
  /\ IsAlignment /\ call.p_code = "P999" /\ call.severity = WARN
  /\ Len(outcome.out.log) = 1

\* Every relation a shortcut field of the batch stands for has its target
\* in the batch, and its ends fit the domain and range of its property.
AllRelationsCompatible ==
  \A k \in 1..Len(entities), n \in 1..Len(ShortcutProperties) :
    \A v \in {get_property_values(entities[k], ShortcutProperties[n])[m] :
                m \in 1..Len(get_property_values(entities[k],
                                                 ShortcutProperties[n]))} :
      /\ ShortcutProperties[n] \in DOMAIN P
      /\ IsA(entities[k].class_code, P[ShortcutProperties[n]].domain)
      /\ \E j \in 1..Len(entities) :
           /\ entities[j].id = v
           /\ IsA(entities[j].class_code, P[ShortcutProperties[n]].range)

\* C18: under WARN, validate_batch_typing returns a report without
\* violations, and does not raise, for every batch whose relations all
\* resolve to compatible ends, a batch without relations included.
C18_BatchTypingClean ==
  (IsBatchTyping /\ call.severity = WARN /\ AllRelationsCompatible) =>
    /\ outcome.out.raised = NoExc
    /\ outcome.ret.ok
    /\ outcome.ret.violations = <<>>

\* A batch whose source names the second entity, of class E100 under E12,
\* as what produced it has been reported clean.
C18_Witness ==
  /\ IsBatchTyping /\ call.severity = WARN
  /\ entities[1].class_code = "E22"
  /\ entities[1].attrs["produced_by"] = Scalar(entities[2].id)
  /\ entities[2].class_code = "E100"
  /\ specs_dir = AuthoredSpecs
  /\ outcome.ret.ok

\* A batch without relations has been reported clean.
C18_WitnessNoRelations ==
  /\ IsBatchTyping /\ call.severity = WARN
  /\ entities[1].attrs["produced_by"] = AttrNone
  /\ outcome.ret.ok

\* The class records the generator was given.
Records == load_yaml_specs(specs_dir).classes

\* C19: two class records with different codes get different class names,
\* whatever their labels, and records with the same code and label get the
\* same name.
C19_ClassNamesCollisionFree ==
  IsGenerate =>
    \A j, k \in 1..Len(Records) :
      /\ Records[j].code # Records[k].code =>
           Emitted[j].class_name # Emitted[k].class_name
      /\ (Records[j].code = Records[k].code
          /\ Records[j].label = Records[k].label) =>
           Emitted[j].class_name = Emitted[k].class_name

\* E1 labelled "2 x" and E12 labelled "x" have been named EE1_2x and EE12_x.
C19_Witness ==
  /\ IsGenerate
  /\ Len(Records) = 2
  /\ Records[1].code = "E1" /\ Records[1].label = <<"2", " ", "x">>
  /\ Records[2].code = "E12" /\ Records[2].label = <<"x">>
  /\ Emitted[1].class_name = "EE1_2x"
  /\ Emitted[2].class_name = "EE12_x"

\* C20: whatever the order of the class records, the definition of a class
\* whose parent is among the records is emitted after the definition of
\* that parent.
C20_ParentBeforeChild ==
  IsGenerate =>
    \A k \in 1..Len(Records) :
      (/\ Records[k].parents # <<>>
       /\ \E j \in 1..Len(Records) : Records[j].code = Records[k].parents[1]
       /\ Records[k].parents[1] # Records[k].code) =>
        \E j \in 1..(k - 1) : Emitted[j].class_code = Records[k].parents[1]


\* The record at position k names a parent that no earlier record defines:
\* the parent is missing from the records, or comes later.
UnresolvedParent(k) ==
  /\ Records[k].parents # <<>>
  /\ \A j \in 1..(k - 1) : Records[j].code # Records[k].parents[1]

\* C21: when a class record names a parent that is missing from the records
\* or has not been generated yet, generation fails loudly and no definition
\* is emitted for that class.
C21_UnresolvedParentFails ==
  IsGenerate =>
    \A k \in 1..Len(Records) :
      UnresolvedParent(k) =>
        /\ outcome.out.raised # NoExc
        /\ \A j \in 1..Len(Emitted) : Emitted[j].class_code # Records[k].code


IsThreads == call.op = "threads"

\* The frames of the caller's threads.
Threads == outcome.ret

\* Thread t has returned from validate_batch_quantifiers.
Returned(t) == Threads[t].pc = "return"

\* What the call given to thread t returns when it runs alone.
Alone(t) ==
  validate_batch_quantifiers(SubSeq(entities, workers[t].lo, workers[t].hi),
                             workers[t].severity)

\* C22: two threads run validate_batch_quantifiers over disjoint or
\* overlapping slices of the caller's list, their steps interleaved in any
\* order: no step changes the entities or the registry, and a thread that
\* has returned has returned the map its call returns when it runs alone
\* (on the entities and the registry of the step, which it leaves as they
\* are).
C22_ThreadsIndependent ==
  [][IsThreads' =>
       /\ entities' = entities
       /\ P' = P /\ DomainIndex' = DomainIndex /\ RangeIndex' = RangeIndex
       /\ \A t \in DOMAIN workers :
            Threads'[t].pc = "return" =>
              Threads'[t].results.ret = Alone(t).ret]_vars

\* Two threads over the whole list of a two-producer object and a time-span
\* with two begin bounds, one raising and one warning under the "error"
\* filter, have both returned a map with the two ids.
C22_Witness ==
  /\ IsThreads
  /\ Len(entities) = 2 /\ entities[1].py = "E22_HumanMadeObject"
  /\ entities[2].py = "E52_TimeSpan"
  /\ warnfilter = "error"
  /\ workers = <<Worker(1, 2, RAISE), Worker(1, 2, WARN)>>
  /\ \A t \in 1..2 : Returned(t) /\ DOMAIN Threads[t].results.ret = {"e1", "e2"}

\* The two threads are both inside a property loop, each with a message of
\* its own collected: thread 1 for the first entity, thread 2 for the second.
C22_WitnessInterleaved ==
  /\ IsThreads
  /\ Len(entities) = 2
  /\ workers = <<Worker(1, 1, RAISE), Worker(2, 2, RAISE)>>
  /\ \A t \in 1..2 :
       /\ Threads[t].pc = "for p_code"
       /\ Threads[t].k = t
       /\ Len(Threads[t].acc.messages) = 1


\* C23: a malformed quantifier string is fatal when the registry is loaded:
\* a process that makes a validation call holds a registry whose quantifiers
\* all parse, and no validation call handles a parse failure by turning it
\* into a message of its result.
C23_MalformedFatalAtLoad ==
  call # NoCall =>
    /\ \A p \in DOMAIN P : parse_quantifier(P[p].quantifier).raised = NoExc
    /\ IsValidateEntity =>
         \A k \in 1..Len(outcome.ret) :
           outcome.ret[k].text # "Error validating property"


\* C24: a lookup that misses is logged, treated as not applicable and never
\* crashes: enforce_quantifier with a property code that is not in P, and
\* validate_entity_quantifiers with an entity whose class code is not in
\* DOMAIN, write a log record, raise nothing and report no violation.
C24_LookupMissLogged ==
  /\ (IsEnforce /\ call.severity # IGNORE /\ call.p_code \notin DOMAIN P) =>
       /\ outcome.out.log # <<>>
       /\ outcome.out.raised = NoExc /\ outcome.out.warned = <<>>
  /\ (IsValidateEntity /\ CallEntity.class_code \notin DOMAIN DomainIndex) =>
       /\ outcome.out.log # <<>>
       /\ outcome.out.raised = NoExc /\ outcome.ret = <<>>


\* C25: enforce_quantifier parses the quantifier before it looks at the
\* entity's class: under WARN and RAISE, for a property of P whose
\* quantifier string is malformed, the call raises for every entity,
\* whatever its class.
C25_MalformedFailsForEveryEntity ==
  (/\ IsEnforce
   /\ call.severity \in {WARN, RAISE}
   /\ call.p_code \in DOMAIN P
   /\ parse_quantifier(P[call.p_code].quantifier).raised # NoExc) =>
    outcome.out.raised # NoExc


\* C26: for every class record with a parent, the base-class name of its
\* definition is the class name of the definition emitted for the record
\* whose code is the parent code.
C26_BaseIsParentName ==
  IsGenerate =>
    \A k \in 1..Len(Records) :
      Records[k].parents # <<>> =>
        /\ \E j \in 1..Len(Records) : Records[j].code = Records[k].parents[1]
        /\ \A j \in 1..Len(Records) :
             Records[j].code = Records[k].parents[1] =>
               Emitted[k].parent_class = Emitted[j].class_name


\* The properties that apply to class c by the class hierarchy: those whose
\* domain is c or an ancestor of c.
PropertiesOf(c) == {p \in DOMAIN P : IsA(c, P[p].domain)}

\* C27: validate_entity_quantifiers hands to enforce_quantifier every
\* property whose domain is the entity's class or one of its ancestors (P53,
\* of domain E18, for an entity of class E22), and no other property.
C27_InheritedPropertiesChecked ==
  IsValidateEntity =>
    {outcome.checked[k] : k \in 1..Len(outcome.checked)}
      = PropertiesOf(CallEntity.class_code)


\* The positions of property p in an index: the class and the place in the
\* list of the class.
Positions(index, p) ==
  {<<c, k>> \in UNION {{c} \X (1..Len(index[c])) : c \in DOMAIN index} :
     index[c][k] = p}

\* The classes that are a key of the index or the value of the field of some
\* property of P.
IndexClasses(index, field) ==
  (DOMAIN index) \cup {P[p][field] : p \in DOMAIN P}

\* index lists p under c exactly when the field of P[p] is c, lists only
\* properties of P, and lists each property of P exactly once.
IndexAgrees(index, field) ==
  /\ \A c \in IndexClasses(index, field), p \in DOMAIN P :
       (c \in DOMAIN index /\ \E k \in 1..Len(index[c]) : index[c][k] = p)
         <=> P[p][field] = c
  /\ \A c \in DOMAIN index :
       \A k \in 1..Len(index[c]) : index[c][k] \in DOMAIN P
  /\ \A p \in DOMAIN P : Cardinality(Positions(index, p)) = 1

\* C28: the DOMAIN and RANGE indexes agree with P: p is listed under class c
\* in DOMAIN exactly when P[p].domain is c, and under c in RANGE exactly when
\* P[p].range is c, so every property is in each index exactly once.
C28_IndexesAgreeWithP ==
  /\ IndexAgrees(DomainIndex, "domain")
  /\ IndexAgrees(RangeIndex, "range")

\* validate_entity_quantifiers has looked up DOMAIN for an object of class
\* E22 and has been given P108, whose domain in P is E22 and whose range,
\* E12, lists it in RANGE.
C28_Witness ==
  /\ IsValidateEntity
  /\ CallEntity.class_code = "E22"
  /\ outcome.checked = <<"P108">>
  /\ P["P108"].domain = "E22" /\ P["P108"].range = "E12"
  /\ Positions(DomainIndex, "P108") = {<<"E22", 1>>}
  /\ Cardinality(Positions(RangeIndex, "P108")) = 1


IsSummary == call.op = "get_quantifier_summary"

\* The messages validate_entity_quantifiers returns for the k-th entity of
\* the list under the severity of the batch call (WARN in the summary).
MessagesOf(k) ==
  validate_entity_quantifiers(entities[k],
                              IF IsSummary THEN WARN ELSE call.severity).ret

\* The positions of the entities with this id that have messages.
WithMessages(id) ==
  {k \in 1..Len(entities) : entities[k].id = id /\ MessagesOf(k) # <<>>}

\* The last of a non-empty set of positions.
Last(S) == CHOOSE k \in S : \A j \in S : j <= k

RECURSIVE Produced(_)
\* The number of messages produced for the first n entities.
Produced(n) == IF n = 0 THEN 0 ELSE Produced(n - 1) + Len(MessagesOf(n))

\* The map of a batch call, or of the batch call inside the summary.
BatchMap == IF IsSummary THEN outcome.ret.validation_results ELSE outcome.ret

\* C29: validate_batch_quantifiers keys its result by entity id and does not
\* check that ids are unique: the keys are the ids of the entities with
\* messages, an id holds the messages of the last entity with that id that
\* has messages, the keys are no more than the distinct ids, and the
\* total_issues of get_quantifier_summary is no more than the messages
\* produced.
C29_LaterEntityOverwrites ==
  (IsValidateBatch \/ IsSummary) =>
    /\ DOMAIN BatchMap = {id \in {entities[k].id : k \in 1..Len(entities)} :
                            WithMessages(id) # {}}
    /\ \A id \in DOMAIN BatchMap : BatchMap[id] = MessagesOf(Last(WithMessages(id)))
    /\ Cardinality(DOMAIN BatchMap)
         <= Cardinality({entities[k].id : k \in 1..Len(entities)})
    /\ IsSummary => outcome.ret.total_issues <= Produced(Len(entities))

\* An object with two producers and a time-span with two of each bound
\* share the id e1: the batch map holds under e1 the two messages of the
\* time-span, and the message of the object is gone.
C29_Witness ==
  /\ IsValidateBatch /\ call.severity = RAISE
  /\ Len(entities) = 2
  /\ entities[1].id = "e1" /\ entities[1].py = "E22_HumanMadeObject"
  /\ entities[2].id = "e1" /\ entities[2].py = "E52_TimeSpan"
  /\ Len(MessagesOf(1)) = 1 /\ Len(MessagesOf(2)) = 2
  /\ DOMAIN outcome.ret = {"e1"}
  /\ outcome.ret["e1"] = MessagesOf(2)

\* For the same list, under the "error" warnings filter, the summary counts
\* two issues while three messages were produced.
C29_WitnessSummary ==
  /\ IsSummary /\ warnfilter = "error"
  /\ Len(entities) = 2
  /\ entities[1].id = "e1" /\ entities[1].py = "E22_HumanMadeObject"
  /\ entities[2].id = "e1" /\ entities[2].py = "E52_TimeSpan"
  /\ outcome.ret.total_issues = 2
  /\ Produced(Len(entities)) = 3
  /\ outcome.ret.entities_with_issues = 1


\* The fields that hold a shortcut: the id of one related entity.
ShortcutFields ==
  {"timespan", "took_place_at", "current_location", "produced_by",
   "begin_of_the_begin", "end_of_the_end"}

\* Every shortcut attribute of the entity holds None or a single id.
ShortcutsNullOrSingle(entity) ==
  \A f \in (DOMAIN entity.attrs) \cap ShortcutFields :
    entity.attrs[f].form \in {"None", "scalar"}

\* C30: with the shipped registry, validate_entity_quantifiers on an entity
\* whose shortcut attributes each hold None or a single id returns the empty
\* list, raises nothing and warns of nothing, for every class and severity.
C30_SingleShortcutsNeverViolate ==
  (IsValidateEntity /\ ShortcutsNullOrSingle(CallEntity)) =>
    /\ outcome.ret = <<>>
    /\ outcome.out.raised = NoExc
    /\ outcome.out.warned = <<>>

\* An object whose producer is a single id has been validated under RAISE:
\* P108 was checked and the result is the empty list.
C30_Witness ==
  /\ IsValidateEntity /\ call.severity = RAISE
  /\ CallEntity.py = "E22_HumanMadeObject"
  /\ CallEntity.attrs["produced_by"] = Scalar(TargetId[1])
  /\ CallEntity.attrs["current_location"] = AttrNone
  /\ outcome.checked = <<"P108">>
  /\ outcome.ret = <<>>

\* A time-span whose two bounds are single ids has been validated under WARN.
C30_WitnessTimeSpan ==
  /\ IsValidateEntity /\ call.severity = WARN
  /\ CallEntity.py = "E52_TimeSpan"
  /\ ShortcutsNullOrSingle(CallEntity)
  /\ outcome.checked = <<"P79", "P80", "P4i">>
  /\ outcome.ret = <<>>
====
